---- MODULE Spec2Model ----
(***************************************************************************)
(* A model of the client-side authentication layer of the Atonix radio     *)
(* player: JwtService (core/services/jwt.service.ts and its jsonwebtoken   *)
(* variant), CryptoService (core/services/crypto.service.ts), StorageUtil  *)
(* (shared/utils/storage.util.ts) and the AuthService the login and        *)
(* register components call; and of two parts of the player itself,        *)
(* AudioPlayerComponent and RadioService.fetchStations.                    *)
(*                                                                         *)
(* Strings are sequences of character codes (UTF-16 code units, all below  *)
(* 128 in the inputs used here), so that split, replace, Base64 and JSON   *)
(* work on the characters the code works on.                               *)
(***************************************************************************)
EXTENDS Integers, Sequences, FiniteSets, TLC

(***************************************************************************)
(* Characters and strings                                                  *)
(***************************************************************************)

\* The printable ASCII characters, code 32 (space) to code 126 (~), in order
\* (code 96, the grave accent, is written by its name).
AsciiTable ==
  << " ", "!", "\"", "#", "$", "%", "&", "'", "(", ")", "*", "+", ",", "-", ".", "/",
     "0", "1", "2", "3", "4", "5", "6", "7", "8", "9", ":", ";", "<", "=", ">", "?",
     "@", "A", "B", "C", "D", "E", "F", "G", "H", "I", "J", "K", "L", "M", "N", "O",
     "P", "Q", "R", "S", "T", "U", "V", "W", "X", "Y", "Z", "[", "\\", "]", "^", "_",
     "grave", "a", "b", "c", "d", "e", "f", "g", "h", "i", "j", "k", "l", "m", "n", "o",
     "p", "q", "r", "s", "t", "u", "v", "w", "x", "y", "z", "{", "|", "}", "~" >>

\* charCodeAt of a one-character string.
OrdOf ==
  [c \in {AsciiTable[i] : i \in 1..Len(AsciiTable)} |->
     31 + (CHOOSE i \in 1..Len(AsciiTable) : AsciiTable[i] = c)]

Ord(c) == OrdOf[c]

\* The string whose characters are the one-character strings of the tuple t.
Str(t) == [i \in 1..Len(t) |-> OrdOf[t[i]]]

RECURSIVE ConcatRange(_, _, _)
\* The concatenation of the strings ss[lo..hi], by halves.
ConcatRange(ss, lo, hi) ==
  IF lo > hi THEN <<>>
  ELSE IF lo = hi THEN ss[lo]
  ELSE ConcatRange(ss, lo, (lo + hi) \div 2) \o ConcatRange(ss, ((lo + hi) \div 2) + 1, hi)

\* The concatenation of a sequence of strings (a template literal, a join("")).
Concat(ss) == ConcatRange(ss, 1, Len(ss))

\* String.prototype.replace(/c/g, r) for a one-character r.
ReplaceChar(s, c, r) == [i \in 1..Len(s) |-> IF s[i] = c THEN r ELSE s[i]]

\* String.prototype.replace(/c/g, '').
RemoveChar(s, c) == SelectSeq(s, LAMBDA ch : ch # c)

\* The least element of a set of positions; 0 for the empty set.
MinOf(S) == IF S = {} THEN 0 ELSE CHOOSE j \in S : \A k \in S : j <= k

\* String.prototype.split(sep) for a one-character separator: the pieces
\* between the separators; the empty string gives one empty piece.
Split(s, sep) ==
  LET \* The k-th smallest of the positions seps; 0 for k = 0.
      Kth(seps, k) ==
        IF k = 0 THEN 0
        ELSE CHOOSE i \in seps : Cardinality({j \in seps : j < i}) = k - 1
      Pieces(seps) ==
        [k \in 1..(Cardinality(seps) + 1) |->
           SubSeq(s, Kth(seps, k - 1) + 1,
                     IF k = Cardinality(seps) + 1 THEN Len(s) ELSE Kth(seps, k) - 1)]
  IN Pieces({i \in 1..Len(s) : s[i] = sep})

\* String.prototype.indexOf(c), 1-based; 0 when c does not occur.
IndexOf(s, c) == MinOf({i \in 1..Len(s) : s[i] = c})

RECURSIVE Digits(_)
\* Number.prototype.toString() of a non-negative integer.
Digits(n) ==
  IF n < 10 THEN <<48 + n>> ELSE Digits(n \div 10) \o <<48 + (n % 10)>>

(***************************************************************************)
(* crypto-js encoders: enc.Base64, enc.Utf8                                *)
(***************************************************************************)

\* Base64._map without its padding character.
Base64Map ==
  Str(<< "A", "B", "C", "D", "E", "F", "G", "H", "I", "J", "K", "L", "M", "N", "O", "P",
         "Q", "R", "S", "T", "U", "V", "W", "X", "Y", "Z", "a", "b", "c", "d", "e", "f",
         "g", "h", "i", "j", "k", "l", "m", "n", "o", "p", "q", "r", "s", "t", "u", "v",
         "w", "x", "y", "z", "0", "1", "2", "3", "4", "5", "6", "7", "8", "9", "+", "/" >>)

PaddingChar == Ord("=")

\* Base64._reverseMap[code] as the shifts of parseLoop see it: a character
\* outside the map gives undefined, which << and >>> turn into 0.
ReverseMap ==
  [c \in 0..255 |->
     IF \E j \in 1..64 : Base64Map[j] = c
       THEN (CHOOSE j \in 1..64 : Base64Map[j] = c) - 1
       ELSE 0]

\* enc.Base64.parse: the bytes of a Base64 text.  The text ends at its first
\* padding character; every position i with i % 4 # 0 (0-based) gives one
\* byte from the characters i-1 and i.  The bits of bits1 above the byte are
\* or-ed into the byte before, where the same bits already are, or fall off
\* the word: the byte is the low eight bits.
Base64Parse(s) ==
  LET Pow2(k) == CASE k = 0 -> 1 [] k = 2 -> 4 [] k = 4 -> 16 [] k = 6 -> 64
      Rev(k) == IF s[k] \in 0..255 THEN ReverseMap[s[k]] ELSE 0
      \* i is the 0-based position of the second character read; s[i] is
      \* the character at the 0-based position i-1.
      ByteAt(i) == ((Rev(i) * Pow2((i % 4) * 2))
                    + (Rev(i + 1) \div Pow2(6 - (i % 4) * 2))) % 256
      \* The positions 0..n-1 that are no multiple of 4, in order: byte k
      \* comes from position 4 * ((k-1) div 3) + ((k-1) mod 3) + 1.
      ParseLoop(n) ==
        [k \in 1..(n - ((n + 3) \div 4)) |->
           ByteAt((4 * ((k - 1) \div 3)) + ((k - 1) % 3) + 1)]
      Length(padAt) == IF padAt = 0 THEN Len(s) ELSE padAt - 1
  IN ParseLoop(Length(IndexOf(s, PaddingChar)))

\* enc.Base64.stringify: three bytes give four characters; a last group of
\* one or two bytes gives two or three, and the text is padded to a multiple
\* of four.
Base64Stringify(bytes) ==
  LET B(k) == IF k <= Len(bytes) THEN bytes[k] ELSE 0
      \* Character j (0..3) of the group g (0-based) of three bytes.
      Ch(g, j) ==
        Base64Map[((((B((3 * g) + 1) * 65536) + (B((3 * g) + 2) * 256) + B((3 * g) + 3))
                    \div (CASE j = 0 -> 262144 [] j = 1 -> 4096 [] j = 2 -> 64 [] j = 3 -> 1))
                   % 64) + 1]
      \* The characters of n bytes, before padding.
      Chars(n) == (4 * (n \div 3)) + (IF n % 3 = 0 THEN 0 ELSE (n % 3) + 1)
  IN [c \in 1..(4 * ((Len(bytes) + 2) \div 3)) |->
        IF c <= Chars(Len(bytes)) THEN Ch((c - 1) \div 4, (c - 1) % 4) ELSE PaddingChar]

\* What a function returning a string gives back when it may throw: the
\* string, or the exception's message.
Ok(v)    == [ok |-> TRUE, val |-> v, err |-> ""]
Threw(e) == [ok |-> FALSE, val |-> <<>>, err |-> e]

\* enc.Utf8.stringify: decodeURIComponent(escape(latin1)), the code points of
\* a UTF-8 byte sequence; "Malformed UTF-8 data" is thrown for a byte
\* sequence that is not UTF-8 (a stray continuation byte, a truncated or
\* overlong sequence, a surrogate, a code point above 10FFFF).  A sequence
\* is UTF-8 when every byte that is no continuation byte starts a good
\* sequence and every continuation byte belongs to the sequence of the
\* nearest such byte before it.
Utf8Stringify(bytes) ==
  LET \* The length of the sequence a byte starts; 0 when it starts none.
      SeqLen(b) ==
        IF b < 128 THEN 1
        ELSE IF b >= 194 /\ b < 224 THEN 2
        ELSE IF b >= 224 /\ b < 240 THEN 3
        ELSE IF b >= 240 /\ b < 245 THEN 4
        ELSE 0
      Cont(b) == b >= 128 /\ b < 192
      CodePoint(i, len) ==
        CASE len = 1 -> bytes[i]
          [] len = 2 -> ((bytes[i] % 32) * 64) + (bytes[i + 1] % 64)
          [] len = 3 -> ((bytes[i] % 16) * 4096) + ((bytes[i + 1] % 64) * 64)
                        + (bytes[i + 2] % 64)
          [] len = 4 -> ((bytes[i] % 8) * 262144) + ((bytes[i + 1] % 64) * 4096)
                        + ((bytes[i + 2] % 64) * 64) + (bytes[i + 3] % 64)
      InRange(len, cp) ==
        /\ len = 3 => (cp >= 2048 /\ ~(cp >= 55296 /\ cp < 57344))
        /\ len = 4 => (cp >= 65536 /\ cp < 1114112)
      Good(i, len) ==
        /\ len > 0
        /\ \A k \in (i + 1)..(i + len - 1) : k <= Len(bytes) /\ Cont(bytes[k])
        /\ InRange(len, CodePoint(i, len))
      \* Whether the continuation byte at i belongs to a sequence.
      Covered(i) ==
        \E j \in 1..(i - 1) :
          /\ ~Cont(bytes[j])
          /\ \A k \in (j + 1)..i : Cont(bytes[k])
          /\ j + SeqLen(bytes[j]) > i
      WellFormed ==
        \A i \in 1..Len(bytes) :
          IF Cont(bytes[i]) THEN Covered(i) ELSE Good(i, SeqLen(bytes[i]))
  IN IF \A k \in 1..Len(bytes) : bytes[k] < 128 THEN Ok(bytes)
     ELSE IF ~WellFormed THEN Threw("Malformed UTF-8 data")
     ELSE Ok(Concat([i \in 1..Len(bytes) |->
                       IF Cont(bytes[i]) THEN <<>>
                       ELSE <<CodePoint(i, SeqLen(bytes[i]))>>]))

\* enc.Utf8.parse: unescape(encodeURIComponent(s)), the UTF-8 bytes of a
\* string of the basic plane without surrogates: one byte for a character
\* below 128, two below 2048, three otherwise.
Utf8Parse(s) ==
  LET Bytes(c) ==
        IF c < 128 THEN <<c>>
        ELSE IF c < 2048 THEN <<192 + (c \div 64), 128 + (c % 64)>>
        ELSE <<224 + (c \div 4096), 128 + ((c \div 64) % 64), 128 + (c % 64)>>
  IN IF \A i \in 1..Len(s) : s[i] < 128 THEN s
     ELSE Concat([i \in 1..Len(s) |-> Bytes(s[i])])

(***************************************************************************)
(* JSON values, JSON.stringify and JSON.parse                              *)
(***************************************************************************)

\* A JSON value is a record of one shape, whatever its kind t: b holds a
\* boolean, n a number, s a string, a an array's items, o an object's
\* members [k |-> key, v |-> value] in insertion order.
JNull    == [t |-> "null",   b |-> FALSE, n |-> 0, s |-> <<>>, a |-> <<>>, o |-> <<>>]
JBool(x) == [t |-> "bool",   b |-> x,     n |-> 0, s |-> <<>>, a |-> <<>>, o |-> <<>>]
JNum(x)  == [t |-> "number", b |-> FALSE, n |-> x, s |-> <<>>, a |-> <<>>, o |-> <<>>]
JStr(x)  == [t |-> "string", b |-> FALSE, n |-> 0, s |-> x,    a |-> <<>>, o |-> <<>>]
JArr(x)  == [t |-> "array",  b |-> FALSE, n |-> 0, s |-> <<>>, a |-> x,    o |-> <<>>]
JObj(x)  == [t |-> "object", b |-> FALSE, n |-> 0, s |-> <<>>, a |-> <<>>, o |-> x]

Member(k, v) == [k |-> k, v |-> v]

HasKey(obj, k) == \E i \in 1..Len(obj.o) : obj.o[i].k = k

\* obj[k]; JNull stands for undefined where the code only tests it.
Get(obj, k) ==
  IF HasKey(obj, k)
    THEN obj.o[CHOOSE i \in 1..Len(obj.o) : obj.o[i].k = k].v
    ELSE JNull

\* obj[k] = v: an existing key keeps its place, a new key goes last.
Put(obj, k, v) ==
  IF HasKey(obj, k)
    THEN JObj([i \in 1..Len(obj.o) |->
                 IF obj.o[i].k = k THEN Member(k, v) ELSE obj.o[i]])
    ELSE JObj(Append(obj.o, Member(k, v)))

\* The object without its key k (a rest pattern that leaves k out).
Without(obj, k) == JObj(SelectSeq(obj.o, LAMBDA m : m.k # k))

HexDigit(d) == IF d < 10 THEN 48 + d ELSE 87 + d

\* JSON.stringify of a string: quoted, with the quote and the backslash
\* escaped, the control characters 8, 9, 10, 12 and 13 as \b, \t, \n, \f
\* and \r, and the other control characters as \u00XX.
Quote(s) ==
  LET Esc(c) ==
        IF c = Ord("\"") \/ c = Ord("\\") THEN <<Ord("\\"), c>>
        ELSE IF c = 8 THEN <<Ord("\\"), Ord("b")>>
        ELSE IF c = 9 THEN <<Ord("\\"), Ord("t")>>
        ELSE IF c = 10 THEN <<Ord("\\"), Ord("n")>>
        ELSE IF c = 12 THEN <<Ord("\\"), Ord("f")>>
        ELSE IF c = 13 THEN <<Ord("\\"), Ord("r")>>
        ELSE IF c < 32
          THEN <<Ord("\\"), Ord("u"), 48, 48, HexDigit(c \div 16), HexDigit(c % 16)>>
        ELSE <<c>>
  IN <<Ord("\"")>> \o Concat([i \in 1..Len(s) |-> Esc(s[i])]) \o <<Ord("\"")>>

RECURSIVE JsonStringify(_)
\* JSON.stringify(v) without an indent argument.
JsonStringify(v) ==
  CASE v.t = "null"   -> Str(<<"n", "u", "l", "l">>)
    [] v.t = "bool"   -> IF v.b THEN Str(<<"t", "r", "u", "e">>)
                         ELSE Str(<<"f", "a", "l", "s", "e">>)
    [] v.t = "number" -> IF v.n < 0 THEN <<Ord("-")>> \o Digits(0 - v.n) ELSE Digits(v.n)
    [] v.t = "string" -> Quote(v.s)
    [] v.t = "array"  ->
         <<Ord("[")>>
         \o Concat([i \in 1..Len(v.a) |->
                      (IF i > 1 THEN <<Ord(",")>> ELSE <<>>) \o JsonStringify(v.a[i])])
         \o <<Ord("]")>>
    [] v.t = "object" ->
         <<Ord("{")>>
         \o Concat([i \in 1..Len(v.o) |->
                      (IF i > 1 THEN <<Ord(",")>> ELSE <<>>)
                      \o Quote(v.o[i].k) \o <<Ord(":")>> \o JsonStringify(v.o[i].v)])
         \o <<Ord("}")>>

\* What a function returning a JavaScript value gives back when it may
\* throw: the value, or the exception's message.
JsOk(v)    == [ok |-> TRUE, val |-> v, err |-> ""]
JsThrew(e) == [ok |-> FALSE, val |-> JNull, err |-> e]

\* ToBoolean(v): false for null (and undefined), false, 0 and "".
Truthy(v) ==
  CASE v.t = "null" -> FALSE
    [] v.t = "bool" -> v.b
    [] v.t = "number" -> v.n # 0
    [] v.t = "string" -> v.s # <<>>
    [] OTHER -> TRUE

\* The result of a parsing step: the value read and the position after it,
\* or a failure (a SyntaxError of JSON.parse).
Parsed(v, next) == [ok |-> TRUE, val |-> v, next |-> next]
NoParse == [ok |-> FALSE, val |-> JNull, next |-> 0]

IsWs(c) == c \in {32, 9, 10, 13}
IsDigit(c) == c >= 48 /\ c <= 57

RECURSIVE SkipWs(_, _)
SkipWs(t, i) == IF i <= Len(t) /\ IsWs(t[i]) THEN SkipWs(t, i + 1) ELSE i

\* Whether the literal word stands at position i of t.
At(t, i, word) ==
  /\ i + Len(word) - 1 <= Len(t)
  /\ \A k \in 1..Len(word) : t[i + k - 1] = word[k]

\* A JSON string starting at the quote at position i: val.s is its value.
\* A character is escaped when an odd number of backslashes stands right
\* before it; the string ends at its first quote that is not escaped.
ParseString(t, i) ==
  LET \* The number of backslashes right before position j.
      Run(j) ==
        IF t[j - 1] # Ord("\\") THEN 0
        ELSE CHOOSE r \in 1..(j - 1 - i) :
               /\ t[j - 1 - r] # Ord("\\")
               /\ \A q \in 1..(r - 1) : t[j - 1 - q] = Ord("\\")
      Escaped(j) == Run(j) % 2 = 1
      EscStart(j) == t[j] = Ord("\\") /\ ~Escaped(j)
      \* A hexadecimal digit of a \u escape that starts 2 to 5 places before.
      InU(j) == \E q \in 2..5 : j - q > i /\ EscStart(j - q) /\ t[j - q + 1] = Ord("u")
      HexVal(c) ==
        IF IsDigit(c) THEN c - 48
        ELSE IF c >= 97 /\ c <= 102 THEN c - 87
        ELSE IF c >= 65 /\ c <= 70 THEN c - 55
        ELSE 0 - 1
      \* The character a one-letter escape stands for; -1 when there is none.
      Simple(c) ==
        CASE c = Ord("\"") -> c [] c = Ord("\\") -> c [] c = Ord("/") -> c
          [] c = Ord("b") -> 8 [] c = Ord("f") -> 12 [] c = Ord("n") -> 10
          [] c = Ord("r") -> 13 [] c = Ord("t") -> 9 [] OTHER -> 0 - 1
      \* Whether position j of the string that closes at end is well formed:
      \* a known escape, or a character that is no control character.
      GoodAt(j, end) ==
        IF EscStart(j)
          THEN IF t[j + 1] = Ord("u")
                 THEN j + 5 < end /\ \A k \in 2..5 : HexVal(t[j + k]) >= 0
                 ELSE Simple(t[j + 1]) >= 0
        ELSE Escaped(j) \/ InU(j) \/ t[j] >= 32
      \* What position j adds to the value of the string.
      Out(j) ==
        IF EscStart(j)
          THEN IF t[j + 1] = Ord("u")
                 THEN << (HexVal(t[j + 2]) * 4096) + (HexVal(t[j + 3]) * 256)
                         + (HexVal(t[j + 4]) * 16) + HexVal(t[j + 5]) >>
                 ELSE << Simple(t[j + 1]) >>
        ELSE IF Escaped(j) \/ InU(j) THEN <<>>
        ELSE << t[j] >>
      \* The string that closes at end (0: no closing quote).
      Body(end) ==
        IF end = 0 THEN NoParse
        ELSE IF \E j \in (i + 1)..(end - 1) : ~GoodAt(j, end) THEN NoParse
        ELSE Parsed(JStr(Concat([k \in 1..(end - 1 - i) |-> Out(i + k)])), end + 1)
  IN IF ~(i <= Len(t) /\ t[i] = Ord("\"")) THEN NoParse
     ELSE Body(MinOf({j \in (i + 1)..Len(t) : t[j] = Ord("\"") /\ ~Escaped(j)}))

RECURSIVE ReadDigits(_, _, _)
\* The digits from position j on, acc being the value of those before.
ReadDigits(t, j, acc) ==
  IF j <= Len(t) /\ IsDigit(t[j]) THEN ReadDigits(t, j + 1, (acc * 10) + (t[j] - 48))
  ELSE [n |-> acc, next |-> j]

\* A JSON number at position i: a single 0, or digits that do not start
\* with 0.  Integers only: a fraction or an exponent, which no text of this
\* model carries, is not read.
ParseNumber(t, i) ==
  LET End(neg, r) ==
        IF r.next <= Len(t) /\ t[r.next] \in {Ord("."), Ord("e"), Ord("E")} THEN NoParse
        ELSE Parsed(JNum(IF neg THEN 0 - r.n ELSE r.n), r.next)
      Unsigned(neg, first) ==
        IF ~(first <= Len(t) /\ IsDigit(t[first])) THEN NoParse
        ELSE End(neg, IF t[first] = 48 THEN [n |-> 0, next |-> first + 1]
                      ELSE ReadDigits(t, first, 0))
  IN IF i <= Len(t) /\ t[i] = Ord("-") THEN Unsigned(TRUE, i + 1)
     ELSE Unsigned(FALSE, i)

RECURSIVE ParseValue(_, _), ParseItems(_, _, _), ParseMembers(_, _, _)

\* The JSON value at position i of t (after white space).
ParseValue(t, i) ==
  LET \* An array whose first item or closing bracket is at position k.
      ArrayAt(k) ==
        IF k <= Len(t) /\ t[k] = Ord("]") THEN Parsed(JArr(<<>>), k + 1)
        ELSE ParseItems(t, k, <<>>)
      \* An object whose first key or closing brace is at position k.
      ObjectAt(k) ==
        IF k <= Len(t) /\ t[k] = Ord("}") THEN Parsed(JObj(<<>>), k + 1)
        ELSE ParseMembers(t, k, JObj(<<>>))
      ValueAt(j) ==
        IF j > Len(t) THEN NoParse
        ELSE IF At(t, j, Str(<<"n", "u", "l", "l">>)) THEN Parsed(JNull, j + 4)
        ELSE IF At(t, j, Str(<<"t", "r", "u", "e">>)) THEN Parsed(JBool(TRUE), j + 4)
        ELSE IF At(t, j, Str(<<"f", "a", "l", "s", "e">>)) THEN Parsed(JBool(FALSE), j + 5)
        ELSE IF t[j] = Ord("\"") THEN ParseString(t, j)
        ELSE IF t[j] = Ord("-") \/ IsDigit(t[j]) THEN ParseNumber(t, j)
        ELSE IF t[j] = Ord("[") THEN ArrayAt(SkipWs(t, j + 1))
        ELSE IF t[j] = Ord("{") THEN ObjectAt(SkipWs(t, j + 1))
        ELSE NoParse
  IN ValueAt(SkipWs(t, i))

\* The items of an array from position i on, acc being those already read.
ParseItems(t, i, acc) ==
  LET Sep(items, k) ==
        IF k > Len(t) THEN NoParse
        ELSE IF t[k] = Ord(",") THEN ParseItems(t, k + 1, items)
        ELSE IF t[k] = Ord("]") THEN Parsed(JArr(items), k + 1)
        ELSE NoParse
      End(item) ==
        IF ~item.ok THEN NoParse
        ELSE Sep(Append(acc, item.val), SkipWs(t, item.next))
  IN End(ParseValue(t, i))

\* The members of an object from position i on, acc being the object read
\* so far; a repeated key keeps its last value.
ParseMembers(t, i, acc) ==
  LET Sep(obj, k) ==
        IF k > Len(t) THEN NoParse
        ELSE IF t[k] = Ord(",") THEN ParseMembers(t, k + 1, obj)
        ELSE IF t[k] = Ord("}") THEN Parsed(obj, k + 1)
        ELSE NoParse
      Value(name, item) ==
        IF ~item.ok THEN NoParse
        ELSE Sep(Put(acc, name, item.val), SkipWs(t, item.next))
      Colon(name, colon) ==
        IF colon > Len(t) THEN NoParse
        ELSE IF t[colon] # Ord(":") THEN NoParse
        ELSE Value(name, ParseValue(t, colon + 1))
      Key(key) ==
        IF ~key.ok THEN NoParse
        ELSE Colon(key.val.s, SkipWs(t, key.next))
  IN Key(ParseString(t, SkipWs(t, i)))

\* JSON.parse(text): the value of a text that holds one JSON value and
\* nothing after it, or a SyntaxError.
JsonParse(text) ==
  LET End(r) ==
        IF r.ok /\ SkipWs(text, r.next) > Len(text) THEN JsOk(r.val)
        ELSE JsThrew("SyntaxError")
  IN End(ParseValue(text, 1))

(***************************************************************************)
(* JwtService (core/services/jwt.service.ts)                               *)
(***************************************************************************)

TOKEN_EXPIRY_DAYS == 7

JWT_SECRET ==
  Str(<<"r", "a", "d", "i", "o", "-", "a", "p", "p", "-", "s", "e", "c", "r", "e", "t", "-", "k", "e", "y", "-", "c", "h", "a", "n", "g", "e", "-", "i", "n", "-", "p", "r", "o", "d", "u", "c", "t", "i", "o", "n", "-", "2", "0", "2", "4">>)

Dot == Ord(".")

\* The property names of a token's header and payload.
Field ==
  [userId   |-> Str(<<"u", "s", "e", "r", "I", "d">>),
   username |-> Str(<<"u", "s", "e", "r", "n", "a", "m", "e">>),
   role     |-> Str(<<"r", "o", "l", "e">>),
   iat      |-> Str(<<"i", "a", "t">>),
   exp      |-> Str(<<"e", "x", "p">>),
   alg      |-> Str(<<"a", "l", "g">>),
   typ      |-> Str(<<"t", "y", "p">>),
   iss      |-> Str(<<"i", "s", "s">>),
   aud      |-> Str(<<"a", "u", "d">>)]

\* A token payload: { userId, username, role }.
TokenPayload(userId, username, role) ==
  JObj(<< Member(Field.userId, JStr(userId)),
          Member(Field.username, JStr(username)),
          Member(Field.role, JStr(role)) >>)

\* CryptoJS.HmacSHA256(message, key): the bytes of the MAC.  The hash is
\* idealised as a keyed function without collisions: byte i of the result is
\* byte i of the message shifted by the key byte in turn.
HmacSHA256(message, key) ==
  LET Mac(m, k) == [i \in 1..Len(m) |-> (m[i] + k[((i - 1) % Len(k)) + 1]) % 256]
  IN Mac(Utf8Parse(message), Utf8Parse(key))

\* The header of every token.
JwtHeader ==
  JObj(<< Member(Field.alg, JStr(Str(<<"H", "S", "2", "5", "6">>))),
          Member(Field.typ, JStr(Str(<<"J", "W", "T">>))) >>)

base64UrlEncode(str) ==
  RemoveChar(ReplaceChar(ReplaceChar(str, Ord("+"), Ord("-")), Ord("/"), Ord("_")),
             Ord("="))

base64UrlDecode(str) ==
  LET Padding(m) ==
        CASE m = 0 -> <<>> [] m = 2 -> <<PaddingChar, PaddingChar>> [] m = 3 -> <<PaddingChar>>
      Decode(output) ==
        IF Len(output) % 4 = 1 THEN Threw("Invalid base64 string")
        ELSE Utf8Stringify(Base64Parse(output \o Padding(Len(output) % 4)))
  IN Decode(ReplaceChar(ReplaceChar(str, Ord("-"), Ord("+")), Ord("_"), Ord("/")))

\* Math.floor(Date.now() / 1000)
NowSeconds(ms) == ms \div 1000

\* The signature segment for the first two segments (lines 58-63, 87-92).
SignatureB64(headerB64, payloadB64) ==
  base64UrlEncode(Base64Stringify(
    HmacSHA256(headerB64 \o <<Dot>> \o payloadB64, JWT_SECRET)))

\* A generateToken that adds the lifetime in milliseconds to the seconds.
generateTokenMs(payload, ms) ==
  LET FullPayload(now) ==
        Put(Put(payload, Field.iat, JNum(now)),
            Field.exp, JNum(now + (TOKEN_EXPIRY_DAYS * 24 * 60 * 60 * 1000)))
      Signed(headerB64, payloadB64) ==
        headerB64 \o <<Dot>> \o payloadB64 \o <<Dot>> \o SignatureB64(headerB64, payloadB64)
  IN JsOk(JStr(Signed(base64UrlEncode(JsonStringify(JwtHeader)),
                      base64UrlEncode(JsonStringify(FullPayload(NowSeconds(ms)))))))

\* generateToken(payload) at the instant ms.  JSON.stringify, the replaces and
\* the MAC do not throw on a payload of strings: the catch is never entered.
generateToken(payload, ms) ==
  LET FullPayload(now) ==
        Put(Put(payload, Field.iat, JNum(now)),
            Field.exp, JNum(now + (TOKEN_EXPIRY_DAYS * 24 * 60 * 60)))
      Signed(headerB64, payloadB64) ==
        headerB64 \o <<Dot>> \o payloadB64 \o <<Dot>> \o SignatureB64(headerB64, payloadB64)
  IN JsOk(JStr(Signed(base64UrlEncode(JsonStringify(JwtHeader)),
                      base64UrlEncode(JsonStringify(FullPayload(NowSeconds(ms)))))))

\* Number(v) < n for the values an exp field may hold; NaN compares false.
JsLess(v, n) ==
  CASE v.t = "number" -> v.n < n
    [] v.t = "bool"   -> (IF v.b THEN 1 ELSE 0) < n
    [] v.t = "string" ->
         /\ v.s # <<>>
         /\ \A i \in 1..Len(v.s) : IsDigit(v.s[i])
         /\ ReadDigits(v.s, 1, 0).n < n
    [] OTHER -> FALSE

\* A signature check that only asks for a signature segment.
SignatureUnchecked(headerB64, payloadB64, signatureB64) == signatureB64 # <<>>

\* The signature check of verifyToken (lines 87-97).
SignatureMatches(headerB64, payloadB64, signatureB64) ==
  signatureB64 = SignatureB64(headerB64, payloadB64)

\* The expiration check of verifyToken (line 103).
ExpirationPassed(payload, ms) ==
  Truthy(Get(payload, Field.exp)) /\ JsLess(Get(payload, Field.exp), NowSeconds(ms))

\* verifyToken(token) at the instant ms: the payload, or JNull for null.
\* Every exception (of base64UrlDecode, of JSON.parse, of reading exp of
\* null) is caught and gives null.
verifyToken(tok, ms) ==
  LET Checked(payload) ==
        IF ~payload.ok THEN JNull
        ELSE IF payload.val.t = "null" THEN JNull
        ELSE IF ExpirationPassed(payload.val, ms) THEN JNull
        ELSE payload.val
      Decoded(payloadJson) ==
        IF ~payloadJson.ok THEN JNull ELSE Checked(JsonParse(payloadJson.val))
      Verified(parts) ==
        IF Len(parts) # 3 THEN JNull
        ELSE IF ~SignatureMatches(parts[1], parts[2], parts[3]) THEN JNull
        ELSE Decoded(base64UrlDecode(parts[2]))
  IN Verified(Split(tok, Dot))

\* A decodeToken that checks the signature as verifyToken does.
decodeTokenVerified(tok) == verifyToken(tok, 0)

\* decodeToken(token): the payload, or JNull for null.  The exceptions of
\* base64UrlDecode and of JSON.parse are caught and give null.
decodeToken(tok) ==
  LET Decoded(payloadJson) ==
        IF ~payloadJson.ok THEN JNull
        ELSE (LET Payload(parsed) == IF parsed.ok THEN parsed.val ELSE JNull
              IN Payload(JsonParse(payloadJson.val)))
      Read(parts) ==
        IF Len(parts) # 3 THEN JNull ELSE Decoded(base64UrlDecode(parts[2]))
  IN Read(Split(tok, Dot))

\* The number NaN, a Date object with its time value, and the Date whose
\* time value is NaN (Invalid Date).
JNaN == [t |-> "NaN", b |-> FALSE, n |-> 0, s |-> <<>>, a |-> <<>>, o |-> <<>>]
JDate(ms) == [t |-> "date", b |-> TRUE, n |-> ms, s |-> <<>>, a |-> <<>>, o |-> <<>>]
InvalidDate == [t |-> "date", b |-> FALSE, n |-> 0, s |-> <<>>, a |-> <<>>, o |-> <<>>]

\* ToNumber(v), as the operator * applies it to decoded.exp: the number a
\* text of digits spells, 0 for the empty text and the empty array, the
\* number of the only item of an array when that is a number or a text,
\* NaN for every other text, array and object.  (Signs, blanks, fractions
\* and nested arrays are in no text of this model.)
ToNumber(v) ==
  LET OfText(t) ==
        IF t = <<>> THEN JNum(0)
        ELSE IF \A i \in 1..Len(t) : IsDigit(t[i]) THEN JNum(ReadDigits(t, 1, 0).n)
        ELSE JNaN
  IN CASE v.t = "number" -> v
       [] v.t = "bool"   -> JNum(IF v.b THEN 1 ELSE 0)
       [] v.t = "null"   -> JNum(0)
       [] v.t = "string" -> OfText(v.s)
       [] v.t = "array"  ->
            IF v.a = <<>> THEN JNum(0)
            ELSE IF Len(v.a) = 1 /\ v.a[1].t = "number" THEN v.a[1]
            ELSE IF Len(v.a) = 1 /\ v.a[1].t = "string" THEN OfText(v.a[1].s)
            ELSE JNaN
       [] OTHER -> JNaN

\* new Date(exp * 1000): Invalid Date when the product is NaN.  (Every
\* number of this model is within the range of a Date's time value.)
ExpirationDate(exp) ==
  LET Date(x) == IF x.t = "NaN" THEN InvalidDate ELSE JDate(x.n * 1000)
  IN Date(ToNumber(exp))

\* isTokenExpired(token) at the instant ms.  Nothing in the try block
\* throws; a comparison with Invalid Date is false.
isTokenExpired(tok, ms) ==
  LET Expired(decoded) ==
        IF ~Truthy(decoded) \/ ~Truthy(Get(decoded, Field.exp)) THEN JBool(TRUE)
        ELSE (LET Before(expirationDate) ==
                    JBool(expirationDate.b /\ expirationDate.n < ms)
              IN Before(ExpirationDate(Get(decoded, Field.exp))))
  IN Expired(decodeToken(tok))

\* getTokenExpiration(token): a Date, or JNull for null.
getTokenExpiration(tok) ==
  LET Expiration(decoded) ==
        IF ~Truthy(decoded) \/ ~Truthy(Get(decoded, Field.exp)) THEN JNull
        ELSE ExpirationDate(Get(decoded, Field.exp))
  IN Expiration(decodeToken(tok))

\* getTimeUntilExpiration(token) at the instant ms: a Date object is truthy
\* also when it is invalid, and Math.max(0, NaN) is NaN.
getTimeUntilExpiration(tok, ms) ==
  LET Remaining(expiration) ==
        IF expiration.t = "null" THEN JNum(0)
        ELSE IF ~expiration.b THEN JNaN
        ELSE JNum(IF expiration.n - ms > 0 THEN expiration.n - ms ELSE 0)
  IN Remaining(getTokenExpiration(tok))

\* const { iat, exp, ...userPayload } = payload: the own enumerable
\* properties but iat and exp; a number or a boolean has none.
UserPayload(payload) ==
  CASE payload.t = "object" -> Without(Without(payload, Field.iat), Field.exp)
    [] payload.t = "array"  ->
         JObj([i \in 1..Len(payload.a) |-> Member(Digits(i - 1), payload.a[i])])
    [] payload.t = "string" ->
         JObj([i \in 1..Len(payload.s) |-> Member(Digits(i - 1), JStr(<<payload.s[i]>>))])
    [] OTHER -> JObj(<<>>)

\* refreshToken(token) at the instant ms: the new token, or JNull for null.
refreshToken(tok, ms) ==
  LET Refreshed(payload) ==
        IF ~Truthy(payload) THEN JsOk(JNull)
        ELSE generateToken(UserPayload(payload), ms)
  IN Refreshed(verifyToken(tok, ms))

(***************************************************************************)
(* JwtService, jsonwebtoken variant (unnamed/part_003)                     *)
(***************************************************************************)

ISSUER   == Str(<<"r", "a", "d", "i", "o", "-", "a", "p", "p">>)
AUDIENCE == Str(<<"r", "a", "d", "i", "o", "-", "a", "p", "p", "-", "u", "s", "e", "r", "s">>)

\* jws: base64url of a text or of the MAC's bytes.
JwsBase64Url(bytes) ==
  RemoveChar(ReplaceChar(ReplaceChar(Base64Stringify(bytes), Ord("+"), Ord("-")),
                         Ord("/"), Ord("_")),
             Ord("="))

\* jws: the text of a base64url segment.
JwsDecode(seg) ==
  Utf8Stringify(Base64Parse(ReplaceChar(ReplaceChar(seg, Ord("-"), Ord("+")),
                                        Ord("_"), Ord("/"))))

\* jwt.sign(payload, JWT_SECRET, {algorithm: 'HS256', expiresIn: '7d',
\* issuer: 'radio-app', audience: 'radio-app-users'}) at the instant ms.  An
\* option that sets a claim is refused when the payload already has the
\* claim; timestamp is payload.iat || Math.floor(Date.now() / 1000).
JwtSign(payload, ms) ==
  LET Claims(timestamp) ==
        Put(Put(Put(Put(payload,
          Field.iat, JNum(timestamp)),
          Field.exp, JNum(timestamp + (TOKEN_EXPIRY_DAYS * 24 * 60 * 60))),
          Field.aud, JStr(AUDIENCE)),
          Field.iss, JStr(ISSUER))
      Signed(headerB64, payloadB64) ==
        headerB64 \o <<Dot>> \o payloadB64 \o <<Dot>>
        \o JwsBase64Url(HmacSHA256(headerB64 \o <<Dot>> \o payloadB64, JWT_SECRET))
  IN IF HasKey(payload, Field.exp)
       THEN JsThrew("Bad options.expiresIn option the payload already has an exp property.")
     ELSE IF HasKey(payload, Field.aud)
       THEN JsThrew("Bad options.audience option. The payload already has an aud property.")
     ELSE IF HasKey(payload, Field.iss)
       THEN JsThrew("Bad options.issuer option. The payload already has an iss property.")
     ELSE JsOk(JStr(Signed(
            JwsBase64Url(Utf8Parse(JsonStringify(JwtHeader))),
            JwsBase64Url(Utf8Parse(JsonStringify(
              Claims(IF Truthy(Get(payload, Field.iat)) THEN Get(payload, Field.iat).n
                     ELSE NowSeconds(ms))))))))

\* generateToken of part_003 (lines 42-62): an exception of jwt.sign is
\* logged and another one is thrown.
generateTokenLib(payload, ms) ==
  LET Caught(signed) ==
        IF signed.ok THEN signed ELSE JsThrew("Failed to generate authentication token")
  IN Caught(JwtSign(payload, ms))

\* jwt.verify(token, JWT_SECRET, {algorithms: ['HS256'], issuer: 'radio-app',
\* audience: 'radio-app-users'}) at the instant ms: the token is decoded,
\* then the algorithm, the signature and the claims exp, aud and iss are
\* checked.
JwtVerify(tok, ms) ==
  LET IsUrlText(seg) ==
        \A i \in 1..Len(seg) :
          seg[i] = Ord("-") \/ seg[i] = Ord("_") \/ \E j \in 1..64 : Base64Map[j] = seg[i]
      Json(text) == IF text.ok THEN JsonParse(text.val) ELSE JsThrew("invalid token")
      AudienceMatches(aud) ==
        \/ aud = JStr(AUDIENCE)
        \/ aud.t = "array" /\ \E i \in 1..Len(aud.a) : aud.a[i] = JStr(AUDIENCE)
      Decoded(parts, header, payload) ==
        IF ~header.ok \/ ~payload.ok THEN JsThrew("invalid token")
        ELSE IF header.val.t # "object" THEN JsThrew("invalid token")
        ELSE IF parts[3] = <<>> THEN JsThrew("jwt signature is required")
        ELSE IF Get(header.val, Field.alg) # Get(JwtHeader, Field.alg)
          THEN JsThrew("invalid algorithm")
        ELSE IF parts[3] # JwsBase64Url(HmacSHA256(parts[1] \o <<Dot>> \o parts[2], JWT_SECRET))
          THEN JsThrew("invalid signature")
        ELSE IF HasKey(payload.val, Field.exp) /\ Get(payload.val, Field.exp).t # "number"
          THEN JsThrew("invalid exp value")
        ELSE IF HasKey(payload.val, Field.exp)
                /\ NowSeconds(ms) >= Get(payload.val, Field.exp).n
          THEN JsThrew("jwt expired")
        ELSE IF ~AudienceMatches(Get(payload.val, Field.aud))
          THEN JsThrew("jwt audience invalid")
        ELSE IF Get(payload.val, Field.iss) # JStr(ISSUER) THEN JsThrew("jwt issuer invalid")
        ELSE JsOk(payload.val)
      Parts(parts) ==
        IF Len(parts) # 3 THEN JsThrew("jwt malformed")
        ELSE IF parts[1] = <<>> \/ parts[2] = <<>> \/ \E k \in 1..3 : ~IsUrlText(parts[k])
          THEN JsThrew("invalid token")
        ELSE Decoded(parts, Json(JwsDecode(parts[1])), Json(JwsDecode(parts[2])))
  IN Parts(Split(tok, Dot))

\* verifyToken of part_003 (lines 69-88): every exception gives null.
verifyTokenLib(tok, ms) ==
  LET Caught(decoded) == IF decoded.ok THEN decoded.val ELSE JNull
  IN Caught(JwtVerify(tok, ms))

\* refreshToken of part_003 (lines 163-173).
refreshTokenLib(tok, ms) ==
  LET Refreshed(payload) ==
        IF ~Truthy(payload) THEN JsOk(JNull)
        ELSE generateTokenLib(UserPayload(payload), ms)
  IN Refreshed(verifyTokenLib(tok, ms))


(***************************************************************************)
(* CryptoService (core/services/crypto.service.ts)                         *)
(***************************************************************************)

PBKDF2_ITERATIONS == 100000
HASH_SIZE == 512
SALT_SIZE == 128

Dollar == Ord("$")

\* WordArray.toString(enc.Hex): two lower-case digits for every byte.
HexStringify(bytes) ==
  [i \in 1..(2 * Len(bytes)) |->
     IF i % 2 = 1 THEN HexDigit(bytes[(i + 1) \div 2] \div 16)
     ELSE HexDigit(bytes[i \div 2] % 16)]

\* enc.Hex.parse: one byte for every two characters, parseInt(pair, 16) or-ed
\* into the word: the digits before the first character that is no digit,
\* nothing (NaN, which |= takes as 0) when the first is none.  The texts
\* parsed here have an even length.
HexParse(hex) ==
  LET Val(c) ==
        IF IsDigit(c) THEN c - 48
        ELSE IF c >= 97 /\ c <= 102 THEN c - 87
        ELSE IF c >= 65 /\ c <= 70 THEN c - 55
        ELSE 0 - 1
      Pair(a, b) ==
        IF Val(a) < 0 THEN 0
        ELSE IF Val(b) < 0 THEN Val(a)
        ELSE (16 * Val(a)) + Val(b)
  IN [i \in 1..(Len(hex) \div 2) |-> Pair(hex[(2 * i) - 1], hex[2 * i])]

\* parseInt(s, 10) of a text without sign or leading blanks: the number its
\* leading digits spell, -1 (for NaN) when it starts with none.
ParseInt(s) ==
  IF s # <<>> /\ IsDigit(s[1]) THEN ReadDigits(s, 1, 0).n ELSE 0 - 1

\* CryptoJS.PBKDF2(password, salt, {keySize: HASH_SIZE / 32, iterations,
\* hasher: SHA512}): the bytes of the derived key.  The derivation is
\* idealised as a function without collisions: the key spells out the
\* password, the salt and the number of rounds, filled up with zeros.  The
\* loop runs once when iterations is below 1 or NaN.
PBKDF2(password, salt, iterations) ==
  LET Rounds == IF iterations < 1 THEN 1 ELSE iterations
      Input(pw) ==
        <<Len(pw)>> \o pw \o salt
        \o <<Rounds % 256, (Rounds \div 256) % 256, (Rounds \div 65536) % 256>>
      Key(in) == [i \in 1..(HASH_SIZE \div 8) |-> IF i <= Len(in) THEN in[i] ELSE 0]
  IN Key(Input(Utf8Parse(password)))

\* A hashPassword that stores the password as it is.
hashPasswordPlain(password, salt) == password

\* A hashPassword whose salt is the same at every call.
hashPasswordUnsalted(password, salt) ==
  LET Record(fixed) ==
        Concat(<< Digits(PBKDF2_ITERATIONS), <<Dollar>>, HexStringify(fixed), <<Dollar>>,
                  HexStringify(PBKDF2(password, fixed, PBKDF2_ITERATIONS)) >>)
  IN Record([i \in 1..(SALT_SIZE \div 8) |-> 0])

\* hashPassword(password), salt being the bytes WordArray.random returned:
\* the record iterations$salt$hash.
hashPassword(password, salt) ==
  Concat(<< Digits(PBKDF2_ITERATIONS), <<Dollar>>, HexStringify(salt), <<Dollar>>,
            HexStringify(PBKDF2(password, salt, PBKDF2_ITERATIONS)) >>)

\* The comparison that tells nothing and accepts every pair of texts of
\* one length.
CompareLengths(a, b) == Len(a) = Len(b)

\* constantTimeCompare(a, b): the or of the xor of the characters is 0.
constantTimeCompare(a, b) ==
  /\ Len(a) = Len(b)
  /\ \A i \in 1..Len(a) : a[i] = b[i]

\* A verifyPassword that accepts every password.
verifyAnyPassword(password, hash) == TRUE

\* verifyPassword(password, hash)
verifyPassword(password, hash) ==
  LET Compare(iterations, saltHex, storedHashHex) ==
        constantTimeCompare(
          HexStringify(PBKDF2(password, HexParse(saltHex), ParseInt(iterations))),
          storedHashHex)
      Checked(parts) ==
        IF Len(parts) # 3 THEN FALSE
        ELSE Compare(parts[1], parts[2], parts[3])
  IN Checked(Split(hash, Dollar))

\* The characters of the class [!@#$%^&*()_+\-=\[\]{};':"\\|,.<>\/?].
SpecialChars ==
  LET listed ==
        Str(<<"!", "@", "#", "$", "%", "^", "&", "*", "(", ")", "_", "+", "-", "=", "[", "]", "{",
        "}", ";", "'", ":", "\"", "\\", "|", ",", ".", "<", ">", "/", "?">>)
  IN {listed[i] : i \in 1..Len(listed)}

\* /[A-Z]/, /[a-z]/, /\d/ and the class of special characters, tested on
\* password.
hasUpperCase(password) == \E i \in 1..Len(password) : password[i] >= 65 /\ password[i] <= 90
hasLowerCase(password) == \E i \in 1..Len(password) : password[i] >= 97 /\ password[i] <= 122
hasNumbers(password) == \E i \in 1..Len(password) : IsDigit(password[i])
hasSpecialChars(password) == \E i \in 1..Len(password) : password[i] \in SpecialChars

\* [hasUpperCase, hasLowerCase, hasNumbers, hasSpecialChars].filter(Boolean).length
varietyCount(password) ==
  Len(SelectSeq(<< hasUpperCase(password), hasLowerCase(password),
                   hasNumbers(password), hasSpecialChars(password) >>,
                LAMBDA has : has))

\* A variety check that is content with two classes.
TwoClassesSuffice(count) == count < 2

\* if (varietyCount < 3)
TooFewClasses(count) == count < 3

\* validatePasswordStrength(password): { isValid, errors, strength }
validatePasswordStrength(password) ==
  LET tooShort ==
        IF Len(password) < 8
          THEN << JStr(Str(<<"P", "a", "s", "s", "w", "o", "r", "d", " ", "m", "u", "s", "t", " ", "b", "e", " ",
                 "a", "t", " ", "l", "e", "a", "s", "t", " ", "8", " ", "c", "h", "a", "r", "a", "c", "t",
                 "e", "r", "s", " ", "l", "o", "n", "g">>)) >>
          ELSE <<>>
      tooPlain ==
        IF TooFewClasses(varietyCount(password))
          THEN << JStr(Str(<<"P", "a", "s", "s", "w", "o", "r", "d", " ", "m", "u", "s", "t", " ", "c", "o", "n",
                 "t", "a", "i", "n", " ", "a", "t", " ", "l", "e", "a", "s", "t", " ", "3", " ", "o", "f",
                 ":", " ", "u", "p", "p", "e", "r", "c", "a", "s", "e", ",", " ", "l", "o", "w", "e", "r",
                 "c", "a", "s", "e", ",", " ", "n", "u", "m", "b", "e", "r", "s", ",", " ", "s", "p", "e",
                 "c", "i", "a", "l", " ", "c", "h", "a", "r", "a", "c", "t", "e", "r", "s">>)) >>
          ELSE <<>>
      errors == tooShort \o tooPlain
      strength ==
        IF Len(password) >= 12 /\ varietyCount(password) >= 3
          THEN Str(<<"s", "t", "r", "o", "n", "g">>)
        ELSE IF Len(password) >= 8 /\ varietyCount(password) >= 2
          THEN Str(<<"m", "e", "d", "i", "u", "m">>)
        ELSE Str(<<"w", "e", "a", "k">>)
  IN JObj(<< Member(Str(<<"i", "s", "V", "a", "l", "i", "d">>), JBool(errors = <<>>)),
             Member(Str(<<"e", "r", "r", "o", "r", "s">>), JArr(errors)),
             Member(Str(<<"s", "t", "r", "e", "n", "g", "t", "h">>), JStr(strength)) >>)

(***************************************************************************)
(* StorageUtil (shared/utils/storage.util.ts)                              *)
(***************************************************************************)

ENCRYPTION_KEY ==
  Str(<<"r", "a", "d", "i", "o", "-", "a", "p", "p", "-", "e", "n", "c", "r", "y", "p", "t", "i", "o", "n", "-", "k", "e", "y", "-", "2", "0", "2", "4", "-", "c", "h", "a", "n", "g", "e", "-", "i", "n", "-", "p", "r", "o", "d", "u", "c", "t", "i", "o", "n">>)

\* The bytes of an AES block.
BlockBytes == 16

\* The first eight bytes of a ciphertext in the OpenSSL format; the salt
\* follows in the next eight.
SaltedPrefix == Str(<<"S", "a", "l", "t", "e", "d", "_", "_">>)

RECURSIVE SumBytes(_, _)
\* The sum of the first n bytes.
SumBytes(bytes, n) == IF n = 0 THEN 0 ELSE bytes[n] + SumBytes(bytes, n - 1)

\* AES in CBC mode under the key and iv that EvpKDF derives from the
\* passphrase and the salt.  The cipher is idealised: byte i of the blocks
\* is shifted by a key byte that depends on the whole passphrase, on the
\* salt and on i; dir is 1 to encrypt and -1 to decrypt.
AesBlocks(bytes, pass, salt, dir) ==
  LET Shifted(sum) ==
        [i \in 1..Len(bytes) |->
           (bytes[i] + (dir * (((sum * i) + salt[((i - 1) % Len(salt)) + 1]) % 256))
            + 256) % 256]
  IN Shifted(SumBytes(pass, Len(pass)) % 256)

\* pad.Pkcs7.pad: n bytes of value n fill the last block, a whole block
\* when the text ends at a block boundary.
Pkcs7Pad(bytes) ==
  LET Fill(n) == bytes \o [i \in 1..n |-> n]
  IN Fill(BlockBytes - (Len(bytes) % BlockBytes))

\* CryptoJS.AES.encrypt(text, pass).toString(), salt being the eight bytes
\* WordArray.random returned: Base64 of "Salted__", the salt and the blocks.
AesEncrypt(text, pass, salt) ==
  Base64Stringify(SaltedPrefix \o salt
                  \o AesBlocks(Pkcs7Pad(Utf8Parse(text)), Utf8Parse(pass), salt, 1))

\* What decrypting bytes that no encryption under the key produced can give:
\* the blocks come out as noise, Pkcs7.unpad drops as many bytes as the last
\* one says, and toString(enc.Utf8) throws on what is left, or gives the
\* empty string when nothing is left, or a text that is no JSON.
Noise ==
  { Threw("Malformed UTF-8 data"), Ok(<<>>), Ok(Str(<<"~", "{">>)) }

\* CryptoJS.AES.decrypt(s, pass).toString(CryptoJS.enc.Utf8): the set of its
\* possible outcomes.  A text without the "Salted__" prefix is decrypted
\* under a key derived from a random salt; no bytes give the empty string.
AesDecrypt(s, pass) ==
  LET Padded(plain) ==
        /\ Len(plain) % BlockBytes = 0
        /\ plain[Len(plain)] \in 1..BlockBytes
        /\ \A i \in (Len(plain) - plain[Len(plain)] + 1)..Len(plain) :
             plain[i] = plain[Len(plain)]
      Unpad(plain) == SubSeq(plain, 1, Len(plain) - plain[Len(plain)])
      Text(plain) ==
        IF Padded(plain) THEN {Utf8Stringify(Unpad(plain))} ELSE Noise
      Blocks(salt, body) ==
        IF body = <<>> THEN {Ok(<<>>)}
        ELSE IF Len(salt) < 8 THEN Noise
        ELSE Text(AesBlocks(body, Utf8Parse(pass), salt, 0 - 1))
      Parse(raw) ==
        IF Len(raw) >= 8 /\ SubSeq(raw, 1, 8) = SaltedPrefix
          THEN Blocks(SubSeq(raw, 9, IF Len(raw) < 16 THEN Len(raw) ELSE 16),
                      SubSeq(raw, 17, Len(raw)))
        ELSE IF raw = <<>> THEN {Ok(<<>>)}
        ELSE Noise
  IN Parse(Base64Parse(s))

\* Storage.getItem(key): the string stored under key, null when there is
\* none.
StorageGetItem(store, key) ==
  IF key \in DOMAIN store THEN JStr(store[key]) ELSE JNull

\* Storage.setItem(key, value)
StorageSetItem(store, key, value) ==
  [k \in DOMAIN store \cup {key} |-> IF k = key THEN value ELSE store[k]]

\* removeItem(key) and removeSessionItem(key), of Storage and of StorageUtil
removeItem(store, key) == [k \in DOMAIN store \ {key} |-> store[k]]

\* clear()
clear(store) == [k \in {} |-> <<>>]

\* hasItem(key)
hasItem(store, key) == StorageGetItem(store, key) # JNull

\* getAllKeys(): the keys key(i) gives for i below length, those left out
\* that are falsy (the empty string); the array is taken as the set of its
\* elements.
getAllKeys(store) == {key \in DOMAIN store : key # ""}

\* The sum of key.length + value.length over the keys in counted.
RECURSIVE SizeOf(_, _)
SizeOf(store, counted) ==
  IF counted = {} THEN 0
  ELSE LET key == CHOOSE k \in counted : TRUE
       IN Len(key) + Len(store[key]) + SizeOf(store, counted \ {key})

\* getStorageSize(): an entry is added when its key and its value are
\* truthy (not the empty string).
getStorageSize(store) ==
  SizeOf(store, {key \in DOMAIN store : key # "" /\ store[key] # <<>>}) * 2

\* What a StorageUtil method leaves: its result and the store.
Left(res, store) == [res |-> res, store |-> store]

\* setItem(key, value) written without the encryption: the JSON text is
\* stored as it is.
setItemPlain(store, key, value, salt, full) ==
  IF full THEN Left(JsThrew("Failed to store item with key"), store)
  ELSE Left(JsOk(JNull), StorageSetItem(store, key, JsonStringify(value)))

\* setItem(key, value), salt being the bytes
\* AES.encrypt draws; full tells that Storage.setItem throws for lack of
\* room.
setItem(store, key, value, salt, full) ==
  IF full THEN Left(JsThrew("Failed to store item with key"), store)
  ELSE Left(JsOk(JNull),
            StorageSetItem(store, key,
                           AesEncrypt(JsonStringify(value), ENCRYPTION_KEY, salt)))

\* setSessionItem(key, value)
setSessionItem(store, key, value, salt, full) ==
  IF full THEN Left(JsThrew("Failed to store session item with key"), store)
  ELSE Left(JsOk(JNull),
            StorageSetItem(store, key,
                           AesEncrypt(JsonStringify(value), ENCRYPTION_KEY, salt)))

\* getItem(key), decrypted being the outcome of AES.decrypt on the stored
\* string.
getItem(store, key, decrypted) ==
  LET Return(parsed) ==
        IF parsed.ok THEN Left(parsed.val, store)
        ELSE Left(JNull, removeItem(store, key))
  IN IF ~Truthy(StorageGetItem(store, key)) THEN Left(JNull, store)
     ELSE IF ~decrypted.ok THEN Left(JNull, removeItem(store, key))
     ELSE IF decrypted.val = <<>> THEN Left(JNull, store)
     ELSE Return(JsonParse(decrypted.val))

\* getSessionItem(key)
getSessionItem(store, key, decrypted) ==
  LET Return(parsed) ==
        IF parsed.ok THEN Left(parsed.val, store)
        ELSE Left(JNull, removeItem(store, key))
  IN IF ~Truthy(StorageGetItem(store, key)) THEN Left(JNull, store)
     ELSE IF ~decrypted.ok THEN Left(JNull, removeItem(store, key))
     ELSE IF decrypted.val = <<>> THEN Left(JNull, store)
     ELSE Return(JsonParse(decrypted.val))

\* The outcomes of AES.decrypt on the string under key; the call is not
\* made when there is none.
Decrypted(store, key) ==
  IF Truthy(StorageGetItem(store, key)) THEN AesDecrypt(store[key], ENCRYPTION_KEY)
  ELSE {Ok(<<>>)}

\* migrateToEncrypted(key): a stored text that is JSON is stored again
\* through setItem; a failure of setItem is swallowed with the failure to
\* parse.
migrateToEncrypted(store, key, salt, full) ==
  LET Saved(r) == IF r.res.ok THEN r.store ELSE store
      Migrated(parsed) ==
        IF parsed.ok THEN Saved(setItem(store, key, parsed.val, salt, full))
        ELSE store
  IN IF ~Truthy(StorageGetItem(store, key)) THEN store
     ELSE Migrated(JsonParse(store[key]))

(***************************************************************************)
(* AuthService (features/auth/services/auth.service.ts).  The file is not  *)
(* among the sources; the service is modelled after its specification:     *)
(* the directory is a list of account records and the session is the       *)
(* persisted token.                                                        *)
(***************************************************************************)

\* No username is the same as another.
NeverSame(a, b) == FALSE

\* The case policy: usernames are the same when they are written the same,
\* at lookup and at insert.
SameName(a, b) == a = b

\* The place of the account with this username in the directory; 0 when
\* there is none.
FindAccount(directory, username) ==
  MinOf({i \in 1..Len(directory) : SameName(directory[i].username, username)})

\* The place of the account with this id; 0 when there is none.
FindId(directory, id) == MinOf({i \in 1..Len(directory) : directory[i].id = id})

\* The id of the next account: ids are given in order and never again.
NextId(directory) == Str(<<"u">>) \o Digits(Len(directory) + 1)

\* A new account record; lastLogin 0 stands for none.
NewAccount(id, username, passwordHash, now) ==
  [id |-> id, username |-> username, passwordHash |-> passwordHash,
   createdAt |-> now, lastLogin |-> 0, favorites |-> {}, preferences |-> JObj(<<>>)]

\* The token issued for an account.
SessionToken(account, now) ==
  generateToken(TokenPayload(account.id, account.username, Str(<<"u", "s", "e", "r">>)),
                now).val

\* What an AuthService call leaves: whether it succeeded, the kind of error
\* and its message when it failed, the directory and the session.
Outcome(ok, error, message, directory, token) ==
  [ok |-> ok, error |-> error, message |-> message,
   accounts |-> directory, session |-> token]

\* register({username, password, confirmPassword}), salt being the salt
\* hashPassword draws.
register(directory, token, username, password, confirmPassword, salt, now) ==
  LET Added(account) ==
        Outcome(TRUE, "", "", Append(directory, account), SessionToken(account, now))
  IN IF password # confirmPassword
       THEN Outcome(FALSE, "ValidationError", "passwords do not match", directory, token)
     ELSE IF FindAccount(directory, username) # 0
       THEN Outcome(FALSE, "ValidationError", "username already present", directory, token)
     ELSE Added(NewAccount(NextId(directory), username,
                           hashPassword(password, salt), now))

\* login({username, password})
login(directory, token, username, password, now) ==
  LET Failed == Outcome(FALSE, "AuthenticationError", "invalid credentials",
                        directory, token)
      Entered(i) ==
        Outcome(TRUE, "", "", [directory EXCEPT ![i].lastLogin = now],
                SessionToken(directory[i], now))
      Checked(i) ==
        IF i = 0 THEN Failed
        ELSE IF ~verifyPassword(password, directory[i].passwordHash) THEN Failed
        ELSE Entered(i)
  IN Checked(FindAccount(directory, username))

\* logout(): the persisted token is removed.
logout(directory, token) == Outcome(TRUE, "", "", directory, JNull)

\* currentSession() at the instant ms: the persisted token is read and
\* verified; when it is absent or verifyToken returns null the stored
\* session is cleared and the result is null (ok FALSE), otherwise the
\* result is the session of the account the payload names (message holds
\* its username).
currentSession(directory, token, ms) ==
  LET Checked(payload) ==
        IF ~Truthy(payload) THEN Outcome(FALSE, "", <<>>, directory, JNull)
        ELSE Outcome(TRUE, "", Get(payload, Field.username).s, directory, token)
  IN IF ~Truthy(token) THEN Outcome(FALSE, "", <<>>, directory, JNull)
     ELSE Checked(verifyToken(token.s, ms))

\* The directory the continuation of a register or login works on, given
\* the one persisted when the operation was started and the one persisted
\* when the continuation runs: an operation that reads at its start.
DirectoryAtStart(atStart, atCompletion) == atStart

\* The directory the continuation of a register or login works on: the one
\* persisted when the continuation runs.  The operation reads and writes
\* the directory in one turn of the event loop, after the hash it awaited.
DirectoryRead(atStart, atCompletion) == atCompletion

\* updateFavorites(accountId, stationId, add)
updateFavorites(directory, accountId, stationId, add) ==
  LET Updated(i) ==
        IF i = 0 THEN directory
        ELSE [directory EXCEPT ![i].favorites =
                IF add THEN @ \cup {stationId} ELSE @ \ {stationId}]
  IN Updated(FindId(directory, accountId))

\* updatePreferences(accountId, patch): the options of the patch replace
\* those of the record.
updatePreferences(directory, accountId, patch) ==
  LET RECURSIVE Merged(_, _)
      Merged(prefs, n) ==
        IF n = 0 THEN prefs
        ELSE Put(Merged(prefs, n - 1), patch.o[n].k, patch.o[n].v)
      Updated(i) ==
        IF i = 0 THEN directory
        ELSE [directory EXCEPT ![i].preferences = Merged(@, Len(patch.o))]
  IN Updated(FindId(directory, accountId))

(***************************************************************************)
(* AudioPlayerComponent (components/audioplayer/audioplayer.component.ts). *)
(* The component is a record of its fields; starting is the number of      *)
(* start() promises not yet settled, and by, started and published tell    *)
(* what the handler that ran last was and did.                             *)
(***************************************************************************)

\* null, where a Station is expected
NoStation == "null"

\* this.stationList[i] || null
StationAt(stationList, i) ==
  IF i >= 0 /\ i < Len(stationList) THEN stationList[i + 1] ELSE NoStation

\* A handler begins: nothing started or published by it yet.
Handler(c, name) == [c EXCEPT !.by = name, !.started = 0, !.published = FALSE]

\* createPlayer() up to the call of start(), whose promise stays pending.
createPlayer(c) ==
  IF c.station = NoStation THEN c
  ELSE [c EXCEPT !.isLoading = TRUE, !.starting = @ + 1, !.started = @ + 1]

\* showFatalError()
showFatalError(c) == [c EXCEPT !.isErrorMessage = TRUE]

\* nextClick()
nextClick(c) ==
  createPlayer([c EXCEPT !.index = c.index + 1,
                         !.station = StationAt(c.stationList, c.index + 1),
                         !.published = TRUE])

\* backClick()
backClick(c) ==
  LET index == IF c.index > 0 THEN c.index - 1 ELSE Len(c.stationList) - 1
  IN createPlayer([c EXCEPT !.index = index,
                            !.station = StationAt(c.stationList, index),
                            !.published = TRUE])

\* The subscriber of getStationIndex()
onStationIndex(c, newIndex) ==
  createPlayer([c EXCEPT !.index = newIndex,
                         !.station = StationAt(c.stationList, newIndex)])

\* The subscriber of getStationList()
onStationList(c, newStationList) ==
  createPlayer([c EXCEPT !.stationList = newStationList,
                         !.station = StationAt(newStationList, c.index)])

\* ngOnChanges()
ngOnChanges(c) == [c EXCEPT !.station = StationAt(c.stationList, c.index)]

\* ngOnDestroy(): destroy$ completes, which ends both subscriptions.
ngOnDestroy(c) == [c EXCEPT !.destroyed = TRUE]

\* A limit that is reached one failure later.
ReachedLimitLate(errorCounter) == errorCounter > 5

\* if (this.errorCounter >= 5)
ReachedLimit(errorCounter) == errorCounter >= 5

\* The then and finally callbacks of start(), the promise being one of those
\* pending.
startResolved(c) ==
  [c EXCEPT !.starting = @ - 1,
            !.errorCounter = 0,
            !.isErrorMessage = FALSE,
            !.isLoading = FALSE]

\* The catch and finally callbacks of start().
startRejected(c) ==
  LET failed == [c EXCEPT !.starting = @ - 1, !.errorCounter = @ + 1]
      caught ==
        IF ReachedLimit(failed.errorCounter) THEN showFatalError(failed)
        ELSE IF failed.index < Len(failed.stationList) - 1 THEN nextClick(failed)
        ELSE createPlayer([failed EXCEPT !.index = 0,
                                         !.station = StationAt(failed.stationList, 0)])
  IN [caught EXCEPT !.isLoading = FALSE]

(***************************************************************************)
(* RadioService.fetchStations (unnamed/part_004) behind SecurityInterceptor *)
(* (core/interceptors/security.interceptor.ts).  A fetch in flight is a     *)
(* record: the call it belongs to, the subscription of retry(2) it is in,   *)
(* the attempt of the interceptor within it, and the requests sent so far.  *)
(***************************************************************************)

MAX_RETRIES == 2

\* retry(2) in fetchStations
FetchRetries == 2

\* null, where the message of error$ is expected
NoError == "null"

\* fetchStations(filters), subscribed by loadStations: the call-th call.
fetchStations(r, call) ==
  [r EXCEPT !.isLoading = TRUE, !.error = NoError]

\* The request http.get sends when it is subscribed.
FirstRequest(call) == [call |-> call, subscription |-> 1, attempt |-> 1, sent |-> 1]

\* The response of a request arrives: map, tap and finalize.
responseArrived(r, fetch) ==
  [r EXCEPT !.stations = fetch.call, !.error = NoError, !.isLoading = FALSE]

\* Whether a failed request is sent again: by retry of the interceptor,
\* and, when that gives up, by retry(2) of the service, which subscribes to
\* http.get anew.
SentAgain(fetch) ==
  fetch.attempt <= MAX_RETRIES \/ fetch.subscription <= FetchRetries

\* The fetch with its next request.
NextRequest(fetch) ==
  IF fetch.attempt <= MAX_RETRIES
    THEN [fetch EXCEPT !.attempt = @ + 1, !.sent = @ + 1]
    ELSE [fetch EXCEPT !.subscription = @ + 1, !.attempt = 1, !.sent = @ + 1]

\* catchError with handleError, and finalize, when no retry is left.
requestsFailed(r, fetch) ==
  [r EXCEPT !.error = "Server error", !.isLoading = FALSE]

(***************************************************************************)
(* The state of the model                                                  *)
(***************************************************************************)

VARIABLES
  nowMs,           \* Date.now(), in milliseconds
  token,           \* the token string the client holds
  origin,          \* how the held token came to be (history, not program state)
  jop,             \* the last JwtService operation
  jres,            \* what it returned or threw
  localStorage,    \* window.localStorage: the strings stored under the keys
  sessionStorage,  \* window.sessionStorage
  stored,          \* the values setItem and setSessionItem stored last (history)
  scall,           \* the last StorageUtil call and what it returned
  record,          \* the password record verifyPassword is given
  recordOf,        \* the password the record was made from (history)
  ccall,           \* the last CryptoService call and what it resolved to
  accounts,        \* the account directory AuthService persists
  session,         \* the session token AuthService persists
  secrets,         \* the passwords the accounts were registered with (history)
  acall,           \* the last AuthService call and its outcome
  live,            \* the last successful register or login not followed by a logout (history)
  pending,         \* the register and login calls that await their hash
  player,          \* the AudioPlayerComponent
  radio,           \* RadioService: what stations$, isLoading$ and error$ hold
  fetches,         \* the fetches of stations in flight
  fetched          \* the calls of fetchStations made and how they ended (history)

jwtVars     == <<nowMs, token, origin, jop, jres>>
storageVars == <<localStorage, sessionStorage, stored, scall>>
cryptoVars  == <<record, recordOf, ccall>>
authVars    == <<accounts, session, secrets, acall, live, pending>>

playerVars  == <<player>>
radioVars   == <<radio, fetches, fetched>>
uiVars      == <<playerVars, radioVars>>
serviceVars == <<jwtVars, storageVars, cryptoVars, authVars>>

vars == <<jwtVars, storageVars, cryptoVars, authVars, uiVars>>

(***************************************************************************)
(* Bounds and inputs                                                       *)
(***************************************************************************)

\* The clock advances by half seconds and by token lifetimes, at most this
\* many of each.
MaxHalfSeconds == 2
MaxLifetimes   == 1

MsPerSecond == 1000
LifetimeMs  == TOKEN_EXPIRY_DAYS * 24 * 60 * 60 * MsPerSecond
StartMs     == MsPerSecond

\* The payloads tokens are issued for.
Payloads ==
  { TokenPayload(Str(<<"u", "1">>), Str(<<"a", "l">>), Str(<<"u", "s", "e", "r">>)),
    TokenPayload(Str(<<"u", "2">>), Str(<<"b", "o">>), Str(<<"a", "d", "m", "i", "n">>)) }

\* The character a character of a token is replaced by.
TamperChar(ch) == IF ch = Ord("A") THEN Ord("B") ELSE Ord("A")

\* The history of a token issued for payload p at the instant ms.
IssuedBy(by, p, ms) ==
  [by |-> by, payload |-> p, ms |-> ms,
   exp |-> NowSeconds(ms) + (TOKEN_EXPIRY_DAYS * 24 * 60 * 60),
   base |-> <<>>, pos |-> 0, baseExp |-> 0]

NoOrigin ==
  [by |-> "none", payload |-> JObj(<<>>), ms |-> 0, exp |-> 0, base |-> <<>>, pos |-> 0,
   baseExp |-> 0]

\* A token the service did not issue: the header, the payload text and a
\* signature segment, in base64url.
ForeignToken(payloadText) ==
  Concat(<< JwsBase64Url(Utf8Parse(JsonStringify(JwtHeader))), <<Dot>>,
            JwsBase64Url(Utf8Parse(payloadText)), <<Dot>>,
            Str(<<"A", "A", "A", "A">>) >>)

\* The texts the helpers are given besides issued tokens: the empty text,
\* one, two and four segments, a payload segment that is no base64, and
\* payloads that are no JSON, null, a number, an object without exp, and
\* objects whose exp is 0, a text that is no number, a number and a text of
\* digits.
HeldTexts ==
  { <<>>,
    Str(<<"a", "b", "c">>),
    Str(<<"a", ".", "b">>),
    Str(<<"a", ".", "b", ".", "c", ".", "d">>),
    Str(<<"a", ".", "!", "!", "!", "!", "!", ".", "c">>),
    ForeignToken(Str(<<"n", "o", "t", " ", "j", "s", "o", "n">>)),
    ForeignToken(Str(<<"n", "u", "l", "l">>)),
    ForeignToken(Str(<<"5">>)),
    ForeignToken(Str(<<"{", "\"", "u", "s", "e", "r", "I", "d", "\"", ":", "\"", "u", "1", "\"", "}">>)),
    ForeignToken(Str(<<"{", "\"", "e", "x", "p", "\"", ":", "0", "}">>)),
    ForeignToken(Str(<<"{", "\"", "e", "x", "p", "\"", ":", "\"", "s", "o", "o", "n", "\"", "}">>)),
    ForeignToken(Str(<<"{", "\"", "e", "x", "p", "\"", ":", "2", "}">>)),
    ForeignToken(Str(<<"{", "\"", "e", "x", "p", "\"", ":", "\"", "2", "\"", "}">>)) }

\* A token with the signature verifyToken computes, made by code that
\* holds JWT_SECRET (the secret is in the bundle): the header, the payload
\* text in base64url and the signature segment.
SignedToken(payloadText) ==
  LET headerB64 == JwsBase64Url(Utf8Parse(JsonStringify(JwtHeader)))
      payloadB64 == JwsBase64Url(Utf8Parse(payloadText))
  IN Concat(<< headerB64, <<Dot>>, payloadB64, <<Dot>>,
               SignatureB64(headerB64, payloadB64) >>)

\* The payloads of the signed tokens: one without exp, one whose exp is the
\* second of the start, one whose exp is after every instant of the clock.
SignedPayloads ==
  { Str(<<"{", "\"", "u", "s", "e", "r", "I", "d", "\"", ":", "\"", "u", "1", "\"", "}">>),
    Str(<<"{", "\"", "e", "x", "p", "\"", ":", "1", "}">>),
    Str(<<"{", "\"", "e", "x", "p", "\"", ":", "2", "0", "0", "0", "0", "0", "0", "}">>) }

\* The signature segments a forger puts in place of the signature.
ForgedSignatures == { <<>>, Str(<<"A", "A", "A", "A">>) }

JwtInit ==
  /\ nowMs = StartMs
  /\ token = <<>>
  /\ origin = NoOrigin
  /\ jop = "none"
  /\ jres = JsOk(JNull)

\* The keys values are stored under: a name and the empty string, which
\* Storage takes as a key like any other.
StorageKeys == {"favorites", ""}
SessionKeys == {"favorites"}

\* The values stored: an object with an array, a number, a boolean, null, a
\* string with a quote, a line feed and a letter above 127, and an object
\* in it; null; the empty string.
StorageValues ==
  { JObj(<< Member(Str(<<"a">>),
                   JArr(<< JNum(1), JBool(TRUE), JNull,
                           JStr(<<Ord("\""), 10, 233>>) >>)),
            Member(Str(<<"b">>), JObj(<< Member(Str(<<"c">>), JNum(0 - 2)) >>)) >>),
    JNull,
    JStr(<<>>) }

\* The salts WordArray.random(8) gives AES.encrypt.
Salts == { <<17, 34, 51, 68, 85, 102, 119, 136>> }

\* A passphrase values were encrypted under by an earlier build.
OtherKey ==
  Str(<<"r", "a", "d", "i", "o", "-", "a", "p", "p", "-", "e", "n", "c", "r", "y", "p", "t", "i", "o", "n", "-", "k", "e", "y", "-", "2", "0", "2", "3">>)

\* Texts an earlier build stored without encryption: one that is JSON and
\* one that is not.
LegacyTexts ==
  { Str(<<"{", "\"", "v", "\"", ":", "1", "}">>), Str(<<"d", "a", "r", "k">>) }

\* A function with no argument: an empty store.
Empty == [k \in {} |-> <<>>]

NoCall == [op |-> "none", key |-> "", raw |-> JNull, res |-> JsOk(JNull), keys |-> {}]

StorageInit ==
  /\ localStorage = Empty
  /\ sessionStorage = Empty
  /\ stored = [local |-> Empty, session |-> Empty]
  /\ scall = NoCall

\* The passwords hashed and tried.
Passwords ==
  { <<>>,
    Str(<<"p", "w", "1">>),
    Str(<<"p", "w", "2">>),
    Str(<<"S", "e", "c", "r", "e", "t", "1", "2", "3", "!">>),
    Str(<<"s", "e", "c", "r", "e", "t", "1", "2", "3", "!">>) }

\* The longest password validatePasswordStrength is given.
MaxPasswordLength == 13

\* The characters the validated passwords are made of: an uppercase letter,
\* a lowercase letter, a digit, a special character, and the tilde, which
\* is in none of the four classes.
StrengthChars == {Ord("A"), Ord("a"), Ord("1"), Ord("!"), Ord("~")}

\* The password of length n that repeats the characters of chars in the
\* order of their codes.
PatternPassword(n, chars) ==
  [i \in 1..n |->
     CHOOSE c \in chars :
       Cardinality({d \in chars : d < c}) = (i - 1) % Cardinality(chars)]

\* The passwords validated: every length up to MaxPasswordLength over every
\* choice of characters.
StrengthPasswords ==
  {PatternPassword(n, chars) :
     n \in 0..MaxPasswordLength, chars \in (SUBSET StrengthChars) \ {{}}}

\* The salts WordArray.random(SALT_SIZE / 8) gives hashPassword.
PasswordSalts ==
  { [i \in 1..(SALT_SIZE \div 8) |-> (b * i) % 256] : b \in {0, 7, 255} }

\* Records that hashPassword did not make: a plaintext password, and a
\* record that lacks its hash.
OtherRecords ==
  { Str(<<"p", "w", "1">>), Str(<<"1", "0", "0", "0", "0", "0", "$", "z", "z">>) }

\* A record with the fields iterations and saltHex whose third field is the
\* key verifyPassword derives from them for the password: what a record
\* looks like that was damaged, or made by other code, and still matches.
MatchingRecord(iterations, saltHex, password) ==
  Concat(<< iterations, <<Dollar>>, saltHex, <<Dollar>>,
            HexStringify(PBKDF2(password, HexParse(saltHex), ParseInt(iterations))) >>)

\* Malformed records: the empty text, two fields, four fields, a hash that
\* is no hex text, and matching records whose iteration field is 0, is no
\* number, or whose salt is no hex text.
MalformedRecords ==
  { <<>>,
    Str(<<"1", "0", "0", "0", "0", "0", "$", "0", "0">>),
    Str(<<"1", "$", "0", "0", "$", "0", "0", "$", "0", "0">>),
    Str(<<"1", "0", "0", "0", "0", "0", "$", "0", "0", "$", "z", "z">>),
    MatchingRecord(Str(<<"0">>), Str(<<"0", "0">>), Str(<<"p", "w", "1">>)),
    MatchingRecord(Str(<<"x">>), Str(<<"0", "0">>), Str(<<"p", "w", "1">>)),
    MatchingRecord(Str(<<"1", "0", "0", "0", "0", "0">>), Str(<<"z", "z">>),
                   Str(<<"p", "w", "1">>)) }

\* No hashPassword call before.
NoRecord == [made |-> FALSE, record |-> <<>>, password |-> <<>>, salt |-> <<>>]

NoPassword == [made |-> FALSE, password |-> <<>>, salt |-> <<>>, before |-> NoRecord]

CryptoInit ==
  /\ record = <<>>
  /\ recordOf = NoPassword
  /\ ccall = [op |-> "none", password |-> <<>>, res |-> JNull]

\* The usernames: two that differ by the case of a letter.
Usernames == { Str(<<"a", "l">>), Str(<<"A", "l">>) }

\* The passwords registered with and tried at login.
AuthPasswords == { Str(<<"p", "w", "1">>), Str(<<"p", "w", "2">>) }

\* What the registration form is filled with: the first password, with a
\* confirmation that matches it or not.
RegisterForms ==
  { [username |-> u, password |-> Str(<<"p", "w", "1">>), confirmPassword |-> c] :
      u \in Usernames, c \in AuthPasswords }

\* The salt hashPassword draws at a registration.
AuthSalts == { [i \in 1..(SALT_SIZE \div 8) |-> (7 * i) % 256] }

Stations == { "station-1" }

Patches == { JObj(<< Member(Str(<<"t", "h", "e", "m", "e">>), JStr(Str(<<"d", "a", "r", "k">>))) >>) }

\* An AuthService call: what it was given and how it ended.
AuthCall(op, username, password, confirmPassword, r) ==
  [op |-> op, username |-> username, password |-> password,
   confirmPassword |-> confirmPassword,
   ok |-> r.ok, error |-> r.error, message |-> r.message]

\* The register and login calls that may await their hash at one time.
MaxPending == 2

\* No session was opened, or the last one was closed by logout.
NoSession == [on |-> FALSE, username |-> <<>>, ms |-> 0, exp |-> 0]

\* The session register or login opened for username at the instant ms.
SessionOf(username, ms) ==
  [on |-> TRUE, username |-> username, ms |-> ms,
   exp |-> NowSeconds(ms) + (TOKEN_EXPIRY_DAYS * 24 * 60 * 60)]

AuthInit ==
  /\ accounts = <<>>
  /\ session = JNull
  /\ secrets = <<>>
  /\ acall = AuthCall("none", <<>>, <<>>, <<>>, Outcome(TRUE, "", "", <<>>, JNull))
  /\ live = NoSession
  /\ pending = <<>>

\* The station lists StationListServiceService emits.
StationLists == { <<>>, <<"s1">>, <<"s1", "s2">> }

\* The largest index a click or a notification leads to, the most start()
\* promises pending at once, and the most failures counted.
MaxIndex    == 2
MaxStarting == 2
MaxErrors   == 6

\* The component after ngOnInit: both subjects have emitted what they hold,
\* the index 0 and the empty list.
PlayerInit ==
  player = [stationList |-> <<>>, station |-> NoStation, index |-> 0,
            isErrorMessage |-> FALSE, isLoading |-> FALSE, errorCounter |-> 0,
            destroyed |-> FALSE, starting |-> 0,
            by |-> "ngOnInit", started |-> 0, published |-> FALSE]

\* The most calls of fetchStations.
MaxFetches == 2

RadioInit ==
  /\ radio = [stations |-> 0, isLoading |-> FALSE, error |-> NoError]
  /\ fetches = {}
  /\ fetched = [calls |-> 0, ended |-> <<>>, by |-> "none", of |-> 0, sent |-> 0]

Init == JwtInit /\ StorageInit /\ CryptoInit /\ AuthInit /\ PlayerInit /\ RadioInit

(***************************************************************************)
(* JwtService operations                                                   *)
(***************************************************************************)

\* Time passes: half a second, or one token lifetime.  What the last call
\* returned is of the instant before.
Tick ==
  /\ \E d \in {MsPerSecond \div 2, LifetimeMs} :
       /\ (nowMs + d - StartMs) % LifetimeMs <= MaxHalfSeconds * (MsPerSecond \div 2)
       /\ (nowMs + d - StartMs) \div LifetimeMs <= MaxLifetimes
       /\ nowMs' = nowMs + d
  /\ jop' = "none"
  /\ jres' = JsOk(JNull)
  /\ UNCHANGED <<token, origin, storageVars, cryptoVars, authVars, uiVars>>

\* generateToken(payload) is called and the client keeps the token.
GenerateToken ==
  \E p \in Payloads :
    \E r \in {generateToken(p, nowMs)} :
      /\ jres' = r
      /\ jop' = "generateToken"
      /\ token' = r.val.s
      /\ origin' = IssuedBy("generateToken", p, nowMs)
      /\ UNCHANGED <<nowMs, storageVars, cryptoVars, authVars, uiVars>>

\* The client holds a token the jsonwebtoken build of the service issued
\* with the same secret (a session stored before the service was changed).
StoredToken ==
  \E p \in Payloads :
    \E r \in {generateTokenLib(p, nowMs)} :
      /\ r.ok
      /\ token' = r.val.s
      /\ origin' = IssuedBy("jsonwebtoken", p, nowMs)
      /\ jop' = "none"
      /\ jres' = JsOk(JNull)
      /\ UNCHANGED <<nowMs, storageVars, cryptoVars, authVars, uiVars>>

\* One character of a token verifyToken has just accepted is replaced by a
\* different one.
Tamper ==
  /\ jop = "verifyToken"
  /\ jres.val # JNull
  /\ origin.by # "tamper"
  /\ \E i \in 1..Len(token) :
       /\ token' = [token EXCEPT ![i] = TamperChar(token[i])]
       /\ origin' = [origin EXCEPT !.by = "tamper", !.base = token, !.pos = i]
  /\ jop' = "none"
  /\ jres' = JsOk(JNull)
  /\ UNCHANGED <<nowMs, storageVars, cryptoVars, authVars, uiVars>>

\* verifyToken(token)
VerifyToken ==
  /\ jres' = JsOk(verifyToken(token, nowMs))
  /\ jop' = "verifyToken"
  /\ UNCHANGED <<nowMs, token, origin, storageVars, cryptoVars, authVars, uiVars>>

\* refreshToken(token); the client keeps the new token when there is one.
RefreshToken ==
  \E r \in {refreshToken(token, nowMs)} :
    /\ jres' = r
    /\ jop' = "refreshToken"
    /\ IF r.ok /\ r.val.t = "string"
         THEN /\ token' = r.val.s
              /\ origin' = [IssuedBy("refreshToken", origin.payload, nowMs)
                              EXCEPT !.base = token, !.baseExp = origin.exp]
         ELSE UNCHANGED <<token, origin>>
    /\ UNCHANGED <<nowMs, storageVars, cryptoVars, authVars, uiVars>>

JwtNext ==
  \/ Tick
  \/ GenerateToken
  \/ StoredToken
  \/ VerifyToken
  \/ RefreshToken

\* JwtService as core/services/jwt.service.ts has it, over time.
SpecJwt == Init /\ [][JwtNext]_vars

TamperNext ==
  \/ StoredToken
  \/ VerifyToken
  \/ Tamper

\* JwtService as core/services/jwt.service.ts has it, on tokens an attacker
\* changes; the clock stands still.
SpecTamper == Init /\ [][TamperNext]_vars

\* The client holds a text that is no token of the service.
HeldText ==
  \E t \in HeldTexts :
    /\ token' = t
    /\ origin' = [NoOrigin EXCEPT !.by = "text"]
    /\ jop' = "none"
    /\ jres' = JsOk(JNull)
    /\ UNCHANGED <<nowMs, storageVars, cryptoVars, authVars, uiVars>>

\* The signature segment of the held token, one with three segments the
\* service or its other build issued, is replaced by another text.
Forge ==
  /\ origin.by \in {"generateToken", "refreshToken", "jsonwebtoken"}
  /\ \E sig \in ForgedSignatures :
       \E parts \in {Split(token, Dot)} :
         /\ Len(parts) = 3
         /\ token' = Concat(<<parts[1], <<Dot>>, parts[2], <<Dot>>, sig>>)
  /\ origin' = [origin EXCEPT !.by = "forge", !.base = token]
  /\ jop' = "none"
  /\ jres' = JsOk(JNull)
  /\ UNCHANGED <<nowMs, storageVars, cryptoVars, authVars, uiVars>>

\* The held token loses its signature segment, or gains a segment.
Resegment ==
  /\ origin.by \in {"generateToken", "refreshToken", "jsonwebtoken"}
  /\ \E parts \in {Split(token, Dot)} :
       /\ Len(parts) = 3
       /\ token' \in { Concat(<<parts[1], <<Dot>>, parts[2]>>),
                        Concat(<<token, <<Dot>>, parts[3]>>) }
  /\ origin' = [origin EXCEPT !.by = "resegment", !.base = token]
  /\ jop' = "none"
  /\ jres' = JsOk(JNull)
  /\ UNCHANGED <<nowMs, storageVars, cryptoVars, authVars, uiVars>>

\* decodeToken(token)
DecodeToken ==
  /\ jres' = JsOk(decodeToken(token))
  /\ jop' = "decodeToken"
  /\ UNCHANGED <<nowMs, token, origin, storageVars, cryptoVars, authVars, uiVars>>

\* isTokenExpired(token)
IsTokenExpired ==
  /\ jres' = JsOk(isTokenExpired(token, nowMs))
  /\ jop' = "isTokenExpired"
  /\ UNCHANGED <<nowMs, token, origin, storageVars, cryptoVars, authVars, uiVars>>

\* getTokenExpiration(token)
GetTokenExpiration ==
  /\ jres' = JsOk(getTokenExpiration(token))
  /\ jop' = "getTokenExpiration"
  /\ UNCHANGED <<nowMs, token, origin, storageVars, cryptoVars, authVars, uiVars>>

\* getTimeUntilExpiration(token)
GetTimeUntilExpiration ==
  /\ jres' = JsOk(getTimeUntilExpiration(token, nowMs))
  /\ jop' = "getTimeUntilExpiration"
  /\ UNCHANGED <<nowMs, token, origin, storageVars, cryptoVars, authVars, uiVars>>

JwtReadNext ==
  \/ Tick
  \/ GenerateToken
  \/ StoredToken
  \/ VerifyToken
  \/ RefreshToken
  \/ DecodeToken
  \/ IsTokenExpired
  \/ GetTokenExpiration
  \/ GetTimeUntilExpiration

\* JwtService as core/services/jwt.service.ts has it, with the operations
\* that read a token without verifying it, over time.
SpecJwtRead == Init /\ [][JwtReadNext]_vars

ForgeNext ==
  \/ Tick
  \/ StoredToken
  \/ Forge
  \/ Resegment
  \/ VerifyToken
  \/ DecodeToken
  \/ IsTokenExpired

\* decodeToken and verifyToken on tokens whose signature or segments were
\* changed, over time.
SpecForge == Init /\ [][ForgeNext]_vars

\* The client holds a token signed with JWT_SECRET that generateToken did
\* not issue.
SignedText ==
  \E p \in SignedPayloads :
    /\ token' = SignedToken(p)
    /\ origin' = [NoOrigin EXCEPT !.by = "signed"]
    /\ jop' = "none"
    /\ jres' = JsOk(JNull)
    /\ UNCHANGED <<nowMs, storageVars, cryptoVars, authVars, uiVars>>

AgreeNext ==
  \/ Tick
  \/ StoredToken
  \/ SignedText
  \/ VerifyToken
  \/ IsTokenExpired
  \/ GetTimeUntilExpiration

\* verifyToken and the expiry helpers on tokens whose signature verifies,
\* over time.
SpecAgree == Init /\ [][AgreeNext]_vars

JwtTextNext ==
  \/ Tick
  \/ StoredToken
  \/ HeldText
  \/ DecodeToken
  \/ IsTokenExpired
  \/ GetTokenExpiration
  \/ GetTimeUntilExpiration

\* The operations of JwtService that read a token without verifying it, on
\* tokens and on texts that are none.
SpecJwtText == Init /\ [][JwtTextNext]_vars

(***************************************************************************)
(* Operations of the jsonwebtoken variant                                  *)
(***************************************************************************)

LibGenerateToken ==
  \E p \in Payloads :
    \E r \in {generateTokenLib(p, nowMs)} :
      /\ jres' = r
      /\ jop' = "generateToken"
      /\ IF r.ok
           THEN /\ token' = r.val.s
                /\ origin' = IssuedBy("jsonwebtoken", p, nowMs)
           ELSE UNCHANGED <<token, origin>>
      /\ UNCHANGED <<nowMs, storageVars, cryptoVars, authVars, uiVars>>

LibVerifyToken ==
  /\ jres' = JsOk(verifyTokenLib(token, nowMs))
  /\ jop' = "verifyToken"
  /\ UNCHANGED <<nowMs, token, origin, storageVars, cryptoVars, authVars, uiVars>>

LibRefreshToken ==
  \E r \in {refreshTokenLib(token, nowMs)} :
    /\ jres' = r
    /\ jop' = "refreshToken"
    /\ IF r.ok /\ r.val.t = "string"
         THEN /\ token' = r.val.s
              /\ origin' = [IssuedBy("refreshToken", origin.payload, nowMs)
                              EXCEPT !.base = token, !.baseExp = origin.exp]
         ELSE UNCHANGED <<token, origin>>
    /\ UNCHANGED <<nowMs, storageVars, cryptoVars, authVars, uiVars>>

JwtLibNext ==
  \/ Tick
  \/ LibGenerateToken
  \/ LibVerifyToken
  \/ LibRefreshToken

\* JwtService as unnamed/part_003 has it.
SpecJwtLib == Init /\ [][JwtLibNext]_vars

(***************************************************************************)
(* StorageUtil operations                                                  *)
(***************************************************************************)

Call(op, key, raw, res) == [op |-> op, key |-> key, raw |-> raw, res |-> res, keys |-> {}]

\* The history without what it held for key.
Forget(history, key) == [k \in DOMAIN history \ {key} |-> history[k]]

\* setItem(key, value)
SetItem ==
  \E key \in StorageKeys, value \in StorageValues, salt \in Salts, full \in BOOLEAN :
    \E r \in {setItem(localStorage, key, value, salt, full)} :
      /\ localStorage' = r.store
      /\ stored' = IF r.res.ok
                     THEN [stored EXCEPT !.local = StorageSetItem(@, key, value)]
                     ELSE stored
      /\ scall' = Call("setItem", key, JNull, r.res)
      /\ UNCHANGED <<sessionStorage, jwtVars, cryptoVars, authVars, uiVars>>

\* getItem(key)
GetItem ==
  \E key \in StorageKeys :
    \E decrypted \in Decrypted(localStorage, key) :
      \E r \in {getItem(localStorage, key, decrypted)} :
        /\ localStorage' = r.store
        /\ scall' = Call("getItem", key, StorageGetItem(localStorage, key), JsOk(r.res))
        /\ UNCHANGED <<sessionStorage, stored, jwtVars, cryptoVars, authVars, uiVars>>

\* removeItem(key)
RemoveItem ==
  \E key \in StorageKeys :
    /\ localStorage' = removeItem(localStorage, key)
    /\ stored' = [stored EXCEPT !.local = Forget(@, key)]
    /\ scall' = Call("removeItem", key, JNull, JsOk(JNull))
    /\ UNCHANGED <<sessionStorage, jwtVars, cryptoVars, authVars, uiVars>>

\* clear()
Clear ==
  /\ localStorage' = clear(localStorage)
  /\ stored' = [stored EXCEPT !.local = Empty]
  /\ scall' = Call("clear", "", JNull, JsOk(JNull))
  /\ UNCHANGED <<sessionStorage, jwtVars, cryptoVars, authVars, uiVars>>

\* hasItem(key)
HasItem ==
  \E key \in StorageKeys :
    /\ scall' = Call("hasItem", key, JNull, JsOk(JBool(hasItem(localStorage, key))))
    /\ UNCHANGED <<localStorage, sessionStorage, stored, jwtVars, cryptoVars, authVars, uiVars>>

\* migrateToEncrypted(key)
MigrateToEncrypted ==
  \E key \in StorageKeys, salt \in Salts, full \in BOOLEAN :
    \E store \in {migrateToEncrypted(localStorage, key, salt, full)} :
      /\ localStorage' = store
      /\ stored' = IF store # localStorage
                     THEN [stored EXCEPT
                             !.local = StorageSetItem(@, key, JsonParse(localStorage[key]).val)]
                     ELSE stored
      /\ scall' = Call("migrateToEncrypted", key, JNull, JsOk(JNull))
      /\ UNCHANGED <<sessionStorage, jwtVars, cryptoVars, authVars, uiVars>>

\* setSessionItem(key, value)
SetSessionItem ==
  \E key \in SessionKeys, value \in StorageValues, salt \in Salts, full \in BOOLEAN :
    \E r \in {setItem(sessionStorage, key, value, salt, full)} :
      /\ sessionStorage' = r.store
      /\ stored' = IF r.res.ok
                     THEN [stored EXCEPT !.session = StorageSetItem(@, key, value)]
                     ELSE stored
      /\ scall' = Call("setSessionItem", key, JNull, r.res)
      /\ UNCHANGED <<localStorage, jwtVars, cryptoVars, authVars, uiVars>>

\* getSessionItem(key)
GetSessionItem ==
  \E key \in SessionKeys :
    \E decrypted \in Decrypted(sessionStorage, key) :
      \E r \in {getSessionItem(sessionStorage, key, decrypted)} :
        /\ sessionStorage' = r.store
        /\ scall' = Call("getSessionItem", key, StorageGetItem(sessionStorage, key),
                         JsOk(r.res))
        /\ UNCHANGED <<localStorage, stored, jwtVars, cryptoVars, authVars, uiVars>>

\* removeSessionItem(key)
RemoveSessionItem ==
  \E key \in SessionKeys :
    /\ sessionStorage' = removeItem(sessionStorage, key)
    /\ stored' = [stored EXCEPT !.session = Forget(@, key)]
    /\ scall' = Call("removeSessionItem", key, JNull, JsOk(JNull))
    /\ UNCHANGED <<localStorage, jwtVars, cryptoVars, authVars, uiVars>>

\* Something other than StorageUtil leaves a string under key: a text an
\* earlier build stored unencrypted, a value encrypted under another
\* passphrase, or what is left of the stored string when its last four
\* characters are lost.
ForeignEntry ==
  \E key \in StorageKeys :
    \E text \in LegacyTexts
                \cup {AesEncrypt(JsonStringify(JNull), OtherKey, salt) : salt \in Salts}
                \cup {SubSeq(localStorage[k], 1, Len(localStorage[k]) - 4) :
                        k \in DOMAIN stored.local \cap {key}} :
      /\ localStorage' = StorageSetItem(localStorage, key, text)
      /\ stored' = [stored EXCEPT !.local = Forget(@, key)]
      /\ scall' = Call("none", key, JNull, JsOk(JNull))
      /\ UNCHANGED <<sessionStorage, jwtVars, cryptoVars, authVars, uiVars>>

\* getAllKeys()
GetAllKeys ==
  /\ scall' = [Call("getAllKeys", "", JNull, JsOk(JNull)) EXCEPT
                 !.keys = getAllKeys(localStorage)]
  /\ UNCHANGED <<localStorage, sessionStorage, stored, jwtVars, cryptoVars, authVars, uiVars>>

\* getStorageSize()
GetStorageSize ==
  /\ scall' = Call("getStorageSize", "", JNull, JsOk(JNum(getStorageSize(localStorage))))
  /\ UNCHANGED <<localStorage, sessionStorage, stored, jwtVars, cryptoVars, authVars, uiVars>>

\* Other code of the page stores the empty string under key.
BlankEntry ==
  \E key \in StorageKeys :
    /\ localStorage' = StorageSetItem(localStorage, key, <<>>)
    /\ stored' = [stored EXCEPT !.local = Forget(@, key)]
    /\ scall' = Call("none", key, JNull, JsOk(JNull))
    /\ UNCHANGED <<sessionStorage, jwtVars, cryptoVars, authVars, uiVars>>

StorageNext ==
  \/ SetItem
  \/ GetItem
  \/ RemoveItem
  \/ Clear
  \/ HasItem
  \/ MigrateToEncrypted
  \/ SetSessionItem
  \/ GetSessionItem
  \/ RemoveSessionItem
  \/ ForeignEntry

\* StorageUtil over a local and a session store that other code writes too.
SpecStorage == Init /\ [][StorageNext]_vars

KeysNext ==
  \/ SetItem
  \/ GetItem
  \/ RemoveItem
  \/ Clear
  \/ HasItem
  \/ GetAllKeys
  \/ GetStorageSize
  \/ SetSessionItem
  \/ BlankEntry

\* The presence and size methods of StorageUtil over stores that hold the
\* empty key and the empty string.
SpecKeys == Init /\ [][KeysNext]_vars

(***************************************************************************)
(* CryptoService operations                                                *)
(***************************************************************************)

\* hashPassword(password); the record is kept.
HashPassword ==
  \E password \in Passwords, salt \in PasswordSalts :
    \E r \in {hashPassword(password, salt)} :
      /\ record' = r
      /\ recordOf' = [made |-> TRUE, password |-> password, salt |-> salt,
                       before |-> [made |-> recordOf.made, record |-> record,
                                   password |-> recordOf.password,
                                   salt |-> recordOf.salt]]
      /\ ccall' = [op |-> "hashPassword", password |-> password, res |-> JStr(r)]
      /\ UNCHANGED <<jwtVars, storageVars, authVars, uiVars>>

\* The record kept is one hashPassword did not make.
OtherRecord ==
  \E r \in OtherRecords \cup MalformedRecords :
    /\ record' = r
    /\ recordOf' = NoPassword
    /\ ccall' = [op |-> "none", password |-> <<>>, res |-> JNull]
    /\ UNCHANGED <<jwtVars, storageVars, authVars, uiVars>>

\* verifyPassword(password, record)
VerifyPassword ==
  \E password \in Passwords :
    /\ ccall' = [op |-> "verifyPassword", password |-> password,
                 res |-> JBool(verifyPassword(password, record))]
    /\ UNCHANGED <<record, recordOf, jwtVars, storageVars, authVars, uiVars>>

\* validatePasswordStrength(password)
ValidatePasswordStrength ==
  \E password \in StrengthPasswords :
    /\ ccall' = [op |-> "validatePasswordStrength", password |-> password,
                 res |-> validatePasswordStrength(password)]
    /\ UNCHANGED <<record, recordOf, jwtVars, storageVars, authVars, uiVars>>

\* validatePasswordStrength on the passwords of StrengthPasswords.
SpecStrength == Init /\ [][ValidatePasswordStrength]_vars

CryptoNext ==
  \/ HashPassword
  \/ OtherRecord
  \/ VerifyPassword

\* CryptoService: passwords are hashed and verified against the record kept.
SpecCrypto == Init /\ [][CryptoNext]_vars

(***************************************************************************)
(* AuthService operations                                                  *)
(***************************************************************************)

\* register(form)
Register ==
  \E form \in RegisterForms, salt \in AuthSalts :
    \E r \in {register(accounts, session, form.username, form.password,
                       form.confirmPassword, salt, nowMs)} :
      /\ accounts' = r.accounts
      /\ session' = r.session
      /\ secrets' = IF r.ok THEN Append(secrets, form.password) ELSE secrets
      /\ acall' = AuthCall("register", form.username, form.password, form.confirmPassword, r)
      /\ live' = IF r.ok THEN SessionOf(form.username, nowMs) ELSE live
      /\ UNCHANGED <<pending, jwtVars, storageVars, cryptoVars, uiVars>>

\* login({username, password})
Login ==
  \E username \in Usernames, password \in AuthPasswords :
    \E r \in {login(accounts, session, username, password, nowMs)} :
      /\ accounts' = r.accounts
      /\ session' = r.session
      /\ acall' = AuthCall("login", username, password, <<>>, r)
      /\ live' = IF r.ok THEN SessionOf(username, nowMs) ELSE live
      /\ UNCHANGED <<secrets, pending, jwtVars, storageVars, cryptoVars, uiVars>>

\* logout()
Logout ==
  \E r \in {logout(accounts, session)} :
    /\ session' = r.session
    /\ acall' = AuthCall("logout", <<>>, <<>>, <<>>, r)
    /\ live' = NoSession
    /\ UNCHANGED <<accounts, secrets, pending, jwtVars, storageVars, cryptoVars, uiVars>>

\* updateFavorites(accountId, stationId, add)
UpdateFavorites ==
  \E i \in 1..Len(accounts), stationId \in Stations, add \in BOOLEAN :
    /\ accounts' = updateFavorites(accounts, accounts[i].id, stationId, add)
    /\ acall' = AuthCall("updateFavorites", accounts[i].username, <<>>, <<>>,
                         Outcome(TRUE, "", "", accounts, session))
    /\ UNCHANGED <<session, secrets, live, pending, jwtVars, storageVars, cryptoVars, uiVars>>

\* updatePreferences(accountId, patch)
UpdatePreferences ==
  \E i \in 1..Len(accounts), patch \in Patches :
    /\ accounts' = updatePreferences(accounts, accounts[i].id, patch)
    /\ acall' = AuthCall("updatePreferences", accounts[i].username, <<>>, <<>>,
                         Outcome(TRUE, "", "", accounts, session))
    /\ UNCHANGED <<session, secrets, live, pending, jwtVars, storageVars, cryptoVars, uiVars>>

AuthNext ==
  \/ Register
  \/ Login
  \/ Logout
  \/ UpdateFavorites
  \/ UpdatePreferences

\* AuthService: accounts are registered, logged in and out, and changed.
SpecAuth == Init /\ [][AuthNext]_vars

\* A token lifetime and a second pass: every token issued before is past
\* its exp.
Expire ==
  /\ (nowMs - StartMs) \div LifetimeMs < MaxLifetimes
  /\ nowMs' = nowMs + LifetimeMs + MsPerSecond
  /\ jop' = "none"
  /\ jres' = JsOk(JNull)
  /\ UNCHANGED <<token, origin, storageVars, cryptoVars, authVars, uiVars>>

\* currentSession(), as the application calls it when it loads and when a
\* route is guarded.
CurrentSession ==
  \E r \in {currentSession(accounts, session, nowMs)} :
    /\ session' = r.session
    /\ acall' = AuthCall("currentSession", r.message, <<>>, <<>>, r)
    /\ UNCHANGED <<accounts, secrets, live, pending, jwtVars, storageVars, cryptoVars, uiVars>>

\* The application is loaded again: what is persisted stays, nothing else
\* does.
Reload ==
  /\ acall' = AuthCall("reload", <<>>, <<>>, <<>>, Outcome(TRUE, "", "", accounts, session))
  /\ UNCHANGED <<accounts, session, secrets, live, pending, jwtVars, storageVars, cryptoVars, uiVars>>

\* The last character of the persisted token is replaced by another.
TamperSession ==
  /\ Truthy(session)
  /\ session' = JStr([session.s EXCEPT ![Len(session.s)] = TamperChar(@)])
  /\ acall' = AuthCall("tamper", <<>>, <<>>, <<>>, Outcome(TRUE, "", "", accounts, session))
  /\ UNCHANGED <<accounts, secrets, live, pending, jwtVars, storageVars, cryptoVars, uiVars>>

SessionNext ==
  \/ Expire
  \/ Register
  \/ Login
  \/ Logout
  \/ CurrentSession
  \/ Reload
  \/ TamperSession

\* AuthService with currentSession, over time.
SpecSession == Init /\ [][SessionNext]_vars

\* onSubmit of the register form: register(form) is called and awaits
\* hashPassword.  The form can be submitted again before the call is done.
SubmitRegister ==
  /\ Len(pending) < MaxPending
  /\ \E form \in {f \in RegisterForms : f.password = f.confirmPassword},
        salt \in AuthSalts :
       pending' = Append(pending, [op |-> "register", username |-> form.username,
                                   password |-> form.password,
                                   confirmPassword |-> form.confirmPassword,
                                   salt |-> salt, atStart |-> accounts])
  /\ UNCHANGED <<accounts, session, secrets, acall, live, jwtVars, storageVars, cryptoVars, uiVars>>

\* onSubmit of the login form: login({username, password}) is called and
\* awaits verifyPassword.
SubmitLogin ==
  /\ Len(pending) < MaxPending
  /\ \E username \in Usernames, password \in {Str(<<"p", "w", "1">>)} :
       pending' = Append(pending, [op |-> "login", username |-> username,
                                   password |-> password, confirmPassword |-> <<>>,
                                   salt |-> <<>>, atStart |-> accounts])
  /\ UNCHANGED <<accounts, session, secrets, acall, live, jwtVars, storageVars, cryptoVars, uiVars>>

\* The continuation of one of the calls that wait runs to its end.
Complete ==
  \E n \in 1..Len(pending) :
    \E call \in {pending[n]} :
      \E r \in {IF call.op = "register"
                   THEN register(DirectoryRead(call.atStart, accounts), session,
                                 call.username, call.password, call.confirmPassword,
                                 call.salt, nowMs)
                   ELSE login(DirectoryRead(call.atStart, accounts), session,
                              call.username, call.password, nowMs)} :
        /\ accounts' = r.accounts
        /\ session' = r.session
        /\ secrets' = IF call.op = "register" /\ r.ok THEN Append(secrets, call.password)
                       ELSE secrets
        /\ acall' = AuthCall(call.op, call.username, call.password, call.confirmPassword, r)
        /\ live' = IF r.ok THEN SessionOf(call.username, nowMs) ELSE live
        /\ pending' = [i \in 1..(Len(pending) - 1) |->
                         IF i < n THEN pending[i] ELSE pending[i + 1]]
        /\ UNCHANGED <<jwtVars, storageVars, cryptoVars, uiVars>>

AsyncNext ==
  \/ Expire
  \/ SubmitRegister
  \/ SubmitLogin
  \/ Complete

\* AuthService when a form is submitted again before the call it started
\* is done.
SpecAsync == Init /\ [][AsyncNext]_vars


(***************************************************************************)
(* AudioPlayerComponent operations                                         *)
(***************************************************************************)

\* The user clicks next.
NextClick ==
  /\ ~player.destroyed
  /\ player.index < MaxIndex
  /\ player.starting < MaxStarting
  /\ player' = nextClick(Handler(player, "nextClick"))
  /\ UNCHANGED <<serviceVars, radioVars>>

\* The user clicks back.
BackClick ==
  /\ ~player.destroyed
  /\ player.starting < MaxStarting
  /\ player' = backClick(Handler(player, "backClick"))
  /\ UNCHANGED <<serviceVars, radioVars>>

\* NavStationService emits an index.
StationIndex ==
  /\ ~player.destroyed
  /\ player.starting < MaxStarting
  /\ \E newIndex \in 0..MaxIndex :
       player' = onStationIndex(Handler(player, "stationIndex"), newIndex)
  /\ UNCHANGED <<serviceVars, radioVars>>

\* StationListServiceService emits a list.
StationList ==
  /\ ~player.destroyed
  /\ player.starting < MaxStarting
  /\ \E newStationList \in StationLists :
       player' = onStationList(Handler(player, "stationList"), newStationList)
  /\ UNCHANGED <<serviceVars, radioVars>>

\* ngOnChanges()
NgOnChanges ==
  /\ ~player.destroyed
  /\ player' = ngOnChanges(Handler(player, "ngOnChanges"))
  /\ UNCHANGED <<serviceVars, radioVars>>

\* ngOnDestroy()
NgOnDestroy ==
  /\ ~player.destroyed
  /\ player' = ngOnDestroy(Handler(player, "ngOnDestroy"))
  /\ UNCHANGED <<serviceVars, radioVars>>

\* A pending start() is fulfilled.
StartResolved ==
  /\ player.starting > 0
  /\ player' = startResolved(Handler(player, "then"))
  /\ UNCHANGED <<serviceVars, radioVars>>

\* A pending start() is rejected.
StartRejected ==
  /\ player.starting > 0
  /\ player.errorCounter < MaxErrors
  /\ player' = startRejected(Handler(player, "catch"))
  /\ UNCHANGED <<serviceVars, radioVars>>

PlayerNext ==
  \/ NextClick
  \/ BackClick
  \/ StationIndex
  \/ StationList
  \/ NgOnChanges
  \/ NgOnDestroy
  \/ StartResolved
  \/ StartRejected

\* The component between ngOnInit and the settling of the last start()
\* after ngOnDestroy.
SpecPlayer == Init /\ [][PlayerNext]_vars

(***************************************************************************)
(* RadioService operations                                                 *)
(***************************************************************************)

\* loadStations(filters): fetchStations is called and subscribed.
FetchStations ==
  /\ fetched.calls < MaxFetches
  /\ radio' = fetchStations(radio, fetched.calls + 1)
  /\ fetches' = fetches \cup {FirstRequest(fetched.calls + 1)}
  /\ fetched' = [fetched EXCEPT !.calls = @ + 1, !.ended = Append(@, "pending"),
                                !.by = "fetchStations", !.of = fetched.calls + 1,
                                !.sent = 1]
  /\ UNCHANGED <<serviceVars, playerVars>>

\* The server answers the request of a fetch with the stations.
ResponseArrived ==
  \E fetch \in fetches :
    /\ radio' = responseArrived(radio, fetch)
    /\ fetches' = fetches \ {fetch}
    /\ fetched' = [fetched EXCEPT !.ended[fetch.call] = "stations",
                                  !.by = "stations", !.of = fetch.call,
                                  !.sent = fetch.sent]
    /\ UNCHANGED <<serviceVars, playerVars>>

\* The request of a fetch fails: it is sent again, or the failure is
\* reported.
RequestFailed ==
  \E fetch \in fetches :
    /\ IF SentAgain(fetch)
         THEN /\ fetches' = (fetches \ {fetch}) \cup {NextRequest(fetch)}
              /\ fetched' = [fetched EXCEPT !.by = "retry", !.of = fetch.call,
                                            !.sent = fetch.sent + 1]
              /\ UNCHANGED radio
         ELSE /\ radio' = requestsFailed(radio, fetch)
              /\ fetches' = fetches \ {fetch}
              /\ fetched' = [fetched EXCEPT !.ended[fetch.call] = "error",
                                            !.by = "error", !.of = fetch.call,
                                            !.sent = fetch.sent]
    /\ UNCHANGED <<serviceVars, playerVars>>

RadioNext ==
  \/ FetchStations
  \/ ResponseArrived
  \/ RequestFailed

\* RadioService under calls of fetchStations that overlap.
SpecRadio == Init /\ [][RadioNext]_vars

(***************************************************************************)
(* Properties of JwtService                                                *)
(***************************************************************************)

\* Whether the signature segment is the MAC of the first two segments.
IntactParts(parts) ==
  Len(parts) = 3 /\ SignatureMatches(parts[1], parts[2], parts[3])

SignatureIntact(tok) == IntactParts(Split(tok, Dot))

\* The token a refreshToken call was given: the one kept as the base of the
\* new token when it returned one, the held token otherwise.
RefreshedFrom ==
  IF jres.ok /\ jres.val.t = "string" THEN origin.base ELSE token

\* The claims of a token of the jsonwebtoken build, read without any check.
ClaimsOf(tok) == JsonParse(JwsDecode(Split(tok, Dot)[2]).val).val

\* C1: verifyToken applied to the string generateToken returned, with no
\* time elapsed in between, returns a payload that is not null, has the
\* userId, username and role of the input, and carries iat and exp.
C1_VerifyAfterGenerate ==
  (jop = "verifyToken" /\ origin.by = "generateToken" /\ origin.ms = nowMs)
    => /\ jres.val # JNull
       /\ \A k \in {Field.userId, Field.username, Field.role} :
            Get(jres.val, k) = Get(origin.payload, k)
       /\ HasKey(jres.val, Field.iat)
       /\ HasKey(jres.val, Field.exp)

\* The case of C1: a token of generateToken verified at the instant it was
\* generated.
C1_Case ==
  /\ jop = "verifyToken"
  /\ origin.by = "generateToken"
  /\ origin.ms = nowMs

\* C4: for a token whose signature is intact, verifyToken returns null at
\* every instant later than the token's exp.
C4_ExpiredRejected ==
  (jop = "verifyToken" /\ SignatureIntact(token) /\ nowMs > origin.exp * MsPerSecond)
    => jres.val = JNull

\* The case of C4: a token with an intact signature verified after its exp.
C4_Case ==
  /\ jop = "verifyToken"
  /\ origin.by = "jsonwebtoken"
  /\ SignatureIntact(token)
  /\ nowMs > origin.exp * MsPerSecond

\* C5: a token verifyToken accepted, with one character of its header,
\* payload or signature segment replaced by a different one, makes
\* verifyToken return null.
C5_TamperedRejected ==
  (jop = "verifyToken" /\ origin.by = "tamper") => jres.val = JNull

\* The case of C5: verifyToken has answered null for an accepted token with
\* one character of its signature segment replaced.
C5_Case ==
  /\ jop = "verifyToken"
  /\ origin.by = "tamper"
  /\ verifyToken(origin.base, nowMs) # JNull
  /\ Len(Split(token, Dot)) = 3
  /\ origin.pos > Len(token) - Len(Split(token, Dot)[3])
  /\ jres.val = JNull

\* C7: refreshToken returns null exactly when verifyToken returns null for
\* the same token; otherwise it returns, without throwing, a new token with
\* the userId, username and role of the old one and with iat and exp
\* computed from the instant of the call.
C7_RefreshMirrorsVerify ==
  jop = "refreshToken"
    => /\ jres.ok
       /\ (jres.val = JNull) <=> (verifyTokenLib(RefreshedFrom, nowMs) = JNull)
       /\ jres.val # JNull
            => /\ \A k \in {Field.userId, Field.username, Field.role} :
                    Get(ClaimsOf(jres.val.s), k) = Get(ClaimsOf(RefreshedFrom), k)
               /\ Get(ClaimsOf(jres.val.s), Field.iat) = JNum(NowSeconds(nowMs))
               /\ Get(ClaimsOf(jres.val.s), Field.exp)
                    = JNum(NowSeconds(nowMs) + (TOKEN_EXPIRY_DAYS * 24 * 60 * 60))

\* The case of C7: refreshToken called with a token verifyToken accepts.
C7_Case ==
  /\ jop = "refreshToken"
  /\ verifyTokenLib(RefreshedFrom, nowMs) # JNull

\* The characters of URL-safe base64: letters, digits, '-' and '_'.
IsBase64Url(seg) ==
  \A i \in 1..Len(seg) :
    \/ IsDigit(seg[i])
    \/ (seg[i] >= 65 /\ seg[i] <= 90)
    \/ (seg[i] >= 97 /\ seg[i] <= 122)
    \/ seg[i] \in {Ord("-"), Ord("_")}

\* The payload generateToken serialises for the held token (lines 47-52).
FullPayloadOf(o) ==
  Put(Put(o.payload, Field.iat, JNum(NowSeconds(o.ms))), Field.exp, JNum(o.exp))

\* C16: the string generateToken returns splits on '.' into exactly three
\* segments, each of URL-safe base64 characters, and base64UrlDecode
\* recovers the header text from the first and the payload text from the
\* second.
C16_ThreeBase64UrlSegments ==
  (jop = "generateToken" /\ origin.by = "generateToken") =>
    LET Holds(parts) ==
          /\ Len(parts) = 3
          /\ \A i \in 1..3 : IsBase64Url(parts[i])
          /\ base64UrlDecode(parts[1]) = Ok(JsonStringify(JwtHeader))
          /\ base64UrlDecode(parts[2]) = Ok(JsonStringify(FullPayloadOf(origin)))
    IN Holds(Split(token, Dot))

\* The case of C16: generateToken has returned a string of three segments.
C16_Case ==
  /\ jop = "generateToken"
  /\ origin.by = "generateToken"
  /\ Len(Split(token, Dot)) = 3

\* The payload object in the second segment of a token of generateToken,
\* which holds the JSON text as it is.
IssuedClaims(tok) == JsonParse(Split(tok, Dot)[2]).val

\* C17: a token generateToken returned (directly or through refreshToken)
\* has exp = iat + 7*24*60*60 with iat the whole seconds of the instant of
\* issue, after every sequence of verifyToken, decodeToken, refreshToken and
\* the expiry helpers; and the token refreshToken was given still has the
\* exp it was issued with.
C17_ExpiryFixedAtIssue ==
  /\ origin.by \in {"generateToken", "refreshToken"} =>
       LET Fixed(claims) ==
             /\ Get(claims, Field.iat) = JNum(origin.ms \div 1000)
             /\ Get(claims, Field.exp) = JNum((origin.ms \div 1000) + (7 * 24 * 60 * 60))
       IN Fixed(IssuedClaims(token))
  /\ origin.by = "refreshToken" =>
       Get(ClaimsOf(origin.base), Field.exp) = JNum(origin.baseExp)

\* The case of C17: the token refreshToken returned has been read by
\* getTokenExpiration some time after its issue.
C17_Case ==
  /\ origin.by = "refreshToken"
  /\ jop = "getTokenExpiration"
  /\ nowMs > origin.ms

\* Whether a text cannot be decoded or carries no exp.
NoExpiry(tok) ==
  \E decoded \in {decodeToken(tok)} : ~Truthy(decoded) \/ ~HasKey(decoded, Field.exp)

\* Whether the exp a text carries is an instant after ms.
ExpInFuture(tok, ms) ==
  /\ ~NoExpiry(tok)
  /\ \E exp \in {ToNumber(Get(decodeToken(tok), Field.exp))} :
       exp.t = "number" /\ exp.n * MsPerSecond > ms

\* C18: isTokenExpired, getTokenExpiration and getTimeUntilExpiration do not
\* raise; for a text that cannot be decoded or carries no exp they return
\* true, null and 0; getTimeUntilExpiration is never negative and returns 0
\* for every token whose exp is not in the future.
C18_HelpersTolerant ==
  /\ jop \in {"isTokenExpired", "getTokenExpiration", "getTimeUntilExpiration"} => jres.ok
  /\ (jop = "isTokenExpired" /\ NoExpiry(token)) => jres.val = JBool(TRUE)
  /\ (jop = "getTokenExpiration" /\ NoExpiry(token)) => jres.val = JNull
  /\ (jop = "getTimeUntilExpiration" /\ NoExpiry(token)) => jres.val = JNum(0)
  /\ jop = "getTimeUntilExpiration" => ~(jres.val.t = "number" /\ jres.val.n < 0)
  /\ (jop = "getTimeUntilExpiration" /\ ~ExpInFuture(token, nowMs)) => jres.val = JNum(0)

\* The case of C18: getTimeUntilExpiration has been called with a text that
\* is no token of the service and decodes to a payload.
C18_Case ==
  /\ jop = "getTimeUntilExpiration"
  /\ origin.by = "text"
  /\ decodeToken(token) # JNull
  /\ ~ExpInFuture(token, nowMs)

\* C19: decodeToken returns null for a token that has not exactly three
\* segments; for two tokens of three segments with the same payload segment
\* it returns the same payload whatever their signature segments are; and
\* where verifyToken accepts a token, decodeToken returns the same payload.
C19_DecodeIgnoresSignature ==
  jop = "decodeToken" =>
    /\ Len(Split(token, Dot)) # 3 => jres.val = JNull
    /\ ( /\ origin.by = "forge"
         /\ Len(Split(token, Dot)) = 3
         /\ Len(Split(origin.base, Dot)) = 3
         /\ Split(token, Dot)[2] = Split(origin.base, Dot)[2] )
         => jres.val = decodeToken(origin.base)
    /\ verifyToken(token, nowMs) # JNull => jres.val = verifyToken(token, nowMs)

\* The case of C19: decodeToken has returned the payload of a token whose
\* signature segment was replaced and which verifyToken rejects.
C19_Case ==
  /\ jop = "decodeToken"
  /\ origin.by = "forge"
  /\ jres.val # JNull
  /\ verifyToken(token, nowMs) = JNull
  /\ verifyToken(origin.base, nowMs) # JNull

\* C29: whenever verifyToken returns a payload for a token, isTokenExpired
\* returns false and getTimeUntilExpiration returns more than 0 for that
\* token at that instant, tokens without exp and the instants of the second
\* after exp included.
C29_VerifyAgreesWithHelpers ==
  (jop = "verifyToken" /\ jres.val # JNull)
    => /\ isTokenExpired(token, nowMs) = JBool(FALSE)
       /\ \E remaining \in {getTimeUntilExpiration(token, nowMs)} :
            remaining.t = "number" /\ remaining.n > 0

\* The case of C29: verifyToken has returned the payload of a token that
\* carries no exp.
C29_Case ==
  /\ jop = "verifyToken"
  /\ jres.val # JNull
  /\ NoExpiry(token)

(***************************************************************************)
(* Properties of StorageUtil                                               *)
(***************************************************************************)

RECURSIVE DeepEqual(_, _)
\* Whether two values are deep-equal: of one kind, equal as primitives, equal
\* item by item as arrays, and with the same keys and deep-equal values under
\* them as objects, in whatever order the keys stand.
DeepEqual(v, w) ==
  /\ v.t = w.t
  /\ v.b = w.b /\ v.n = w.n /\ v.s = w.s
  /\ Len(v.a) = Len(w.a)
  /\ \A i \in 1..Len(v.a) : DeepEqual(v.a[i], w.a[i])
  /\ {m.k : m \in {v.o[i] : i \in 1..Len(v.o)}} = {m.k : m \in {w.o[i] : i \in 1..Len(w.o)}}
  /\ Len(v.o) = Len(w.o)
  /\ \A i \in 1..Len(v.o) : DeepEqual(v.o[i].v, Get(w, v.o[i].k))

\* Whether the string a getItem call found can not be decrypted or parsed:
\* no outcome of the decryption is a text that JSON.parse accepts.
Undecryptable(raw) ==
  /\ Truthy(raw)
  /\ \A d \in AesDecrypt(raw.s, ENCRYPTION_KEY) :
       ~d.ok \/ d.val = <<>> \/ ~JsonParse(d.val).ok

\* C2: getItem(k) returns a value deep-equal to the value the last
\* setItem(k, v) stored, whatever was done to other keys and whatever was
\* read in between; so does getSessionItem(k) for setSessionItem(k, v).
C2_GetAfterSet ==
  /\ (scall.op = "getItem" /\ scall.key \in DOMAIN stored.local)
       => scall.res.ok /\ DeepEqual(scall.res.val, stored.local[scall.key])
  /\ (scall.op = "getSessionItem" /\ scall.key \in DOMAIN stored.session)
       => scall.res.ok /\ DeepEqual(scall.res.val, stored.session[scall.key])

\* The case of C2: getItem has read a key that holds a nested object while
\* the other key holds another value and the session store holds a third.
C2_Case ==
  /\ scall.op = "getItem"
  /\ scall.key \in DOMAIN stored.local
  /\ stored.local[scall.key].t = "object"
  /\ DeepEqual(scall.res.val, stored.local[scall.key])
  /\ \E k \in DOMAIN stored.local : stored.local[k] = JNull
  /\ \E k \in DOMAIN stored.session : stored.session[k] = JStr(<<>>)

\* C6: when the string under k can not be decrypted or parsed, getItem(k)
\* returns null and deletes the entry, so that hasItem(k) is false, whether
\* the decryption throws or gives an empty result.
C6_FailedEntryDeleted ==
  (scall.op = "getItem" /\ Undecryptable(scall.raw))
    => /\ scall.res.val = JNull
       /\ ~hasItem(localStorage, scall.key)

\* The case of C6: getItem has read a key whose string can not be decrypted.
C6_Case ==
  /\ scall.op = "getItem"
  /\ Undecryptable(scall.raw)

\* Whether the text under key k parses as JSON: a value an earlier build
\* stored without encryption.
LegacyJson(store, k) ==
  /\ k \in DOMAIN store
  /\ store[k] # <<>>
  /\ JsonParse(store[k]).ok

\* C20: migrateToEncrypted(k): when the text under k parses as JSON to v,
\* getItem(k) afterwards returns v; when it does not parse, or k is absent,
\* localStorage is left as it was; a second call on a key already migrated
\* changes nothing.
C20_MigrateOnce ==
  [][scall'.op = "migrateToEncrypted" =>
       /\ LegacyJson(localStorage, scall'.key) =>
            \A d \in Decrypted(localStorage', scall'.key) :
              DeepEqual(getItem(localStorage', scall'.key, d).res,
                        JsonParse(localStorage[scall'.key]).val)
       /\ ~LegacyJson(localStorage, scall'.key) => localStorage' = localStorage
       /\ (scall.op = "migrateToEncrypted" /\ scall.key = scall'.key
             /\ scall.key \in DOMAIN stored.local)
            => localStorage' = localStorage]_vars

\* The case of C20: migrateToEncrypted has returned and the text under its
\* key still parses as JSON.
C20_Case ==
  /\ scall.op = "migrateToEncrypted"
  /\ LegacyJson(localStorage, scall.key)

\* C21: on a key that is absent getItem returns null, hasItem returns false
\* and removeItem returns without throwing, and none of them changes an
\* entry; removeItem on a key that is present removes it and no other
\* entry; getAllKeys returns exactly the keys that are present.
C21_PresenceAndRemoval ==
  [][/\ (scall'.op \in {"getItem", "hasItem"} /\ scall'.key \notin DOMAIN localStorage)
          => /\ scall'.res.ok
             /\ scall'.res.val = (IF scall'.op = "getItem" THEN JNull ELSE JBool(FALSE))
             /\ localStorage' = localStorage
             /\ sessionStorage' = sessionStorage
     /\ scall'.op = "removeItem"
          => /\ scall'.res.ok
             /\ DOMAIN localStorage' = DOMAIN localStorage \ {scall'.key}
             /\ \A k \in DOMAIN localStorage' : localStorage'[k] = localStorage[k]
             /\ sessionStorage' = sessionStorage
     /\ scall'.op = "getAllKeys"
          => /\ scall'.keys = DOMAIN localStorage
             /\ localStorage' = localStorage]_vars

\* The case of C21: getAllKeys has been called on a store that holds a
\* value under the empty key.
C21_Case ==
  /\ scall.op = "getAllKeys"
  /\ "" \in DOMAIN localStorage

\* The character count of all keys and values of store.
RECURSIVE Characters(_, _)
Characters(store, keys) ==
  IF keys = {} THEN 0
  ELSE LET k == CHOOSE key \in keys : TRUE
       IN Len(k) + Len(store[k]) + Characters(store, keys \ {k})

\* C22: getStorageSize returns twice the sum, over all entries of the
\* durable store, of the character count of the key plus that of the
\* value, whatever key and value are; the session store is not counted and
\* no entry is changed.
C22_SizeCountsEveryEntry ==
  [][scall'.op = "getStorageSize" =>
       /\ scall'.res.ok
       /\ scall'.res.val = JNum(2 * Characters(localStorage, DOMAIN localStorage))
       /\ localStorage' = localStorage
       /\ sessionStorage' = sessionStorage]_vars

\* The case of C22: getStorageSize has been called on a durable store that
\* holds an entry under the empty key, while the session store holds an
\* entry too.
C22_Case ==
  /\ scall.op = "getStorageSize"
  /\ "" \in DOMAIN localStorage
  /\ localStorage[""] # <<>>
  /\ DOMAIN sessionStorage # {}

(***************************************************************************)
(* Properties of CryptoService                                             *)
(***************************************************************************)

\* C3: verifyPassword(p, r) is true when r is a record hashPassword(q) made
\* and p = q, and false when p differs from q.
C3_VerifyIffSamePassword ==
  (ccall.op = "verifyPassword" /\ recordOf.made)
    => (ccall.res.b <=> ccall.password = recordOf.password)

\* The case of C3: the password a record was made from has been verified
\* against it and accepted.
C3_Case ==
  /\ ccall.op = "verifyPassword"
  /\ recordOf.made
  /\ ccall.password = recordOf.password
  /\ ccall.res = JBool(TRUE)

\* A field of a record is well formed when it is a text of hex digits, the
\* iteration field when it spells a positive number.
IsHexText(f) ==
  /\ f # <<>>
  /\ \A i \in 1..Len(f) :
       \/ IsDigit(f[i])
       \/ (f[i] >= 97 /\ f[i] <= 102)
       \/ (f[i] >= 65 /\ f[i] <= 70)

IsPositiveNumber(f) ==
  /\ f # <<>>
  /\ \A i \in 1..Len(f) : IsDigit(f[i])
  /\ \E i \in 1..Len(f) : f[i] # Ord("0")

Malformed(r) ==
  LET Bad(parts) ==
        \/ Len(parts) # 3
        \/ ~IsPositiveNumber(parts[1])
        \/ ~IsHexText(parts[2])
        \/ ~IsHexText(parts[3])
  IN Bad(Split(r, Dollar))

\* C13: for every password p and every malformed record r (not three
\* '$'-separated fields, an iteration field that is no positive number, a
\* salt or hash field that is no hex text, the empty text),
\* verifyPassword(p, r) resolves to false.  (The model has no rejection:
\* every exception is caught at lines 83-86 and gives false.)
C13_MalformedRejected ==
  (ccall.op = "verifyPassword" /\ Malformed(record)) => ccall.res = JBool(FALSE)

\* The case of C13: a password has been verified against a malformed record.
C13_Case ==
  /\ ccall.op = "verifyPassword"
  /\ Malformed(record)
  /\ Len(Split(record, Dollar)) = 3

\* C14: two calls of hashPassword(p), each with the salt it drew, return two
\* different records, and verifyPassword(p, r) is true for both.
C14_FreshSaltFreshRecord ==
  ( /\ ccall.op = "hashPassword"
    /\ recordOf.before.made
    /\ recordOf.before.password = recordOf.password
    /\ recordOf.before.salt # recordOf.salt )
    => /\ record # recordOf.before.record
       /\ verifyPassword(recordOf.password, record)
       /\ verifyPassword(recordOf.password, recordOf.before.record)

\* The case of C14: hashPassword has been called twice in a row for one
\* password and drew two salts.
C14_Case ==
  /\ ccall.op = "hashPassword"
  /\ recordOf.before.made
  /\ recordOf.before.password = recordOf.password
  /\ recordOf.before.salt # recordOf.salt
  /\ recordOf.password # <<>>

\* A field that names something: a text that is neither a number nor hex
\* digits.
IsIdentifier(f) == f # <<>> /\ ~IsHexText(f)

\* C15: every record hashPassword returns holds, in one string, the
\* algorithm identifier, the iteration count, the salt and the derived key,
\* and verifyPassword derives the key from the iteration count and the salt
\* of the record: the record verifies its password, and no longer does when
\* its iteration field or its salt field is changed.
C15_SelfContainedRecord ==
  ccall.op = "hashPassword" =>
    LET Holds(parts) ==
          /\ \E i \in 1..Len(parts) : IsIdentifier(parts[i])
          /\ \E i \in 1..Len(parts) : parts[i] = Digits(PBKDF2_ITERATIONS)
          /\ \E i \in 1..Len(parts) : parts[i] = HexStringify(recordOf.salt)
          /\ \E i \in 1..Len(parts) :
               parts[i] = HexStringify(PBKDF2(recordOf.password, recordOf.salt,
                                              PBKDF2_ITERATIONS))
          /\ verifyPassword(recordOf.password, record)
    IN Holds(Split(record, Dollar))

\* The case of C15: hashPassword has returned a record.
C15_Case ==
  /\ ccall.op = "hashPassword"
  /\ recordOf.made
  /\ Len(Split(record, Dollar)) = 3

\* The number of the four classes password has a character of.
ClassesIn(password) ==
  Cardinality({class \in {"uppercase", "lowercase", "digit", "special"} :
                 \E i \in 1..Len(password) :
                   \/ class = "uppercase" /\ password[i] \in 65..90
                   \/ class = "lowercase" /\ password[i] \in 97..122
                   \/ class = "digit" /\ password[i] \in 48..57
                   \/ class = "special" /\ password[i] \in SpecialChars})

\* C30: isValid is true exactly for the passwords of at least 8 characters
\* with at least 3 of the 4 classes; errors is empty exactly when isValid is
\* true; isValid implies strength medium or strong, and strength strong
\* implies isValid.
C30_StrengthConsistent ==
  ccall.op = "validatePasswordStrength" =>
    LET isValid == Get(ccall.res, Str(<<"i", "s", "V", "a", "l", "i", "d">>)).b
        errors == Get(ccall.res, Str(<<"e", "r", "r", "o", "r", "s">>)).a
        strength == Get(ccall.res, Str(<<"s", "t", "r", "e", "n", "g", "t", "h">>)).s
    IN /\ isValid <=> (Len(ccall.password) >= 8 /\ ClassesIn(ccall.password) >= 3)
       /\ (errors = <<>>) <=> isValid
       /\ isValid => strength \in {Str(<<"m", "e", "d", "i", "u", "m">>),
                                   Str(<<"s", "t", "r", "o", "n", "g">>)}
       /\ strength = Str(<<"s", "t", "r", "o", "n", "g">>) => isValid

\* The case of C30: a password of 8 characters with exactly three classes
\* has been validated and reported as medium.
C30_Case ==
  /\ ccall.op = "validatePasswordStrength"
  /\ Len(ccall.password) = 8
  /\ ClassesIn(ccall.password) = 3
  /\ Get(ccall.res, Str(<<"i", "s", "V", "a", "l", "i", "d">>)).b
  /\ Get(ccall.res, Str(<<"s", "t", "r", "e", "n", "g", "t", "h">>)).s = Str(<<"m", "e", "d", "i", "u", "m">>)

(***************************************************************************)
(* Properties of AuthService                                               *)
(***************************************************************************)

\* Whether the directories differ at most by the lastLogin of account i.
OnlyLastLoginChanged(before, after, i) ==
  /\ Len(after) = Len(before)
  /\ \A j \in 1..Len(before) :
       after[j] = [before[j] EXCEPT !.lastLogin = IF j = i THEN after[j].lastLogin ELSE @]

\* The payload of a token of generateToken, whose second segment is the
\* JSON text itself.
PayloadOf(tok) == JsonParse(Split(tok.s, Dot)[2]).val

\* Whether tok is a token issued for the account.
TokenFor(tok, account) ==
  /\ tok.t = "string"
  /\ Len(Split(tok.s, Dot)) = 3
  /\ Get(PayloadOf(tok), Field.userId) = JStr(account.id)
  /\ Get(PayloadOf(tok), Field.username) = JStr(account.username)

\* Whether the directory holds an account with this username.
Present(directory, username) ==
  \E i \in 1..Len(directory) : directory[i].username = username

\* The place of that account.
Place(directory, username) ==
  CHOOSE i \in 1..Len(directory) : directory[i].username = username

\* C8: no two records of the directory have the same username under the
\* case policy, whatever was registered, logged in or out, or updated.
C8_UsernamesUnique ==
  \A i, j \in 1..Len(accounts) :
    accounts[i].username = accounts[j].username => i = j

\* The case of C8: the directory holds two accounts and a registration
\* under a username it holds has been refused.
C8_Case ==
  /\ Len(accounts) = 2
  /\ acall.op = "register"
  /\ ~acall.ok

\* C9: a register call whose passwords differ or whose username is present
\* fails with a ValidationError and changes neither the directory nor the
\* persisted token; any other adds exactly one record, whose hash is the
\* hash of the password and not the password, and persists a token for it.
C9_RegisterOutcome ==
  [][acall'.op = "register" =>
       IF \/ acall'.password # acall'.confirmPassword
          \/ Present(accounts, acall'.username)
         THEN /\ ~acall'.ok
              /\ acall'.error = "ValidationError"
              /\ accounts' = accounts
              /\ session' = session
         ELSE /\ acall'.ok
              /\ Len(accounts') = Len(accounts) + 1
              /\ SubSeq(accounts', 1, Len(accounts)) = accounts
              /\ accounts'[Len(accounts')].username = acall'.username
              /\ accounts'[Len(accounts')].passwordHash # acall'.password
              /\ \E salt \in AuthSalts :
                   accounts'[Len(accounts')].passwordHash
                     = hashPassword(acall'.password, salt)
              /\ TokenFor(session', accounts'[Len(accounts')])]_vars

\* The case of C9: a registration has added a second account and persisted
\* its token.
C9_Case ==
  /\ acall.op = "register"
  /\ acall.ok
  /\ Len(accounts) = 2
  /\ TokenFor(session, accounts[2])

\* C10: login with a username the directory lacks and login with a wrong
\* password fail with one and the same AuthenticationError and change
\* neither the directory nor the persisted session; a login that succeeds
\* changes the lastLogin of that account and the persisted token only.
C10_LoginOutcome ==
  [][acall'.op = "login" =>
       IF \/ ~Present(accounts, acall'.username)
          \/ secrets[Place(accounts, acall'.username)] # acall'.password
         THEN /\ ~acall'.ok
              /\ acall'.error = "AuthenticationError"
              /\ acall'.message = "invalid credentials"
              /\ accounts' = accounts
              /\ session' = session
         ELSE /\ acall'.ok
              /\ OnlyLastLoginChanged(accounts, accounts', Place(accounts, acall'.username))
              /\ accounts'[Place(accounts, acall'.username)].lastLogin = nowMs
              /\ TokenFor(session', accounts[Place(accounts, acall'.username)])]_vars

\* The case of C10: a login with the username of an account and a password
\* that is not its password has failed.
C10_Case ==
  /\ acall.op = "login"
  /\ ~acall.ok
  /\ Present(accounts, acall.username)

\* Whether the persisted token is absent, fails the signature check, or is
\* past the exp it was issued with.
SessionInvalid ==
  \/ ~Truthy(session)
  \/ ~SignatureIntact(session.s)
  \/ (live.on /\ nowMs > live.exp * MsPerSecond)

\* C11: after a successful register or login, with no logout since and the
\* token's exp not passed, currentSession returns the session of that
\* account and leaves the persisted token; when the persisted token is
\* absent, expired or fails the signature check, currentSession returns
\* null and leaves no persisted token (so that it returns null until a
\* register or login persists a new one).
C11_SessionLifecycle ==
  [][acall'.op = "currentSession" =>
       /\ SessionInvalid => (~acall'.ok /\ session' = JNull)
       /\ (~SessionInvalid /\ live.on)
            => (acall'.ok /\ acall'.username = live.username /\ session' = session)]_vars

\* The case of C11: currentSession has been called at the instant of a
\* successful register or login, after the application was loaded again.
C11_Case ==
  /\ acall.op = "currentSession"
  /\ live.on
  /\ live.ms = nowMs
  /\ Len(accounts) > 0

C25_LoadingWhilePending ==
  player.isLoading <=> player.starting > 0

\* The case of C25: the rejection handler of a failed start() has issued
\* the next one, which is pending.
C25_Case ==
  /\ player.by = "catch"
  /\ player.started = 1
  /\ player.starting > 0

\* C26: whenever stationList is not empty, index is at least 0 and below
\* its length, and station is stationList[index].
C26_IndexInRange ==
  player.stationList # <<>> =>
    /\ player.index >= 0
    /\ player.index < Len(player.stationList)
    /\ player.station = player.stationList[player.index + 1]

\* The case of C26: next has been clicked on the last station of the list.
C26_Case ==
  /\ player.by = "nextClick"
  /\ player.stationList # <<>>
  /\ player.index = Len(player.stationList)

\* C27: a handler of start() that runs after ngOnDestroy starts no
\* playback and publishes no station index.
C27_QuietAfterDestroy ==
  (player.destroyed /\ player.by \in {"then", "catch"})
    => (player.started = 0 /\ ~player.published)

\* The case of C27: a start() that was pending at ngOnDestroy has been
\* rejected after it.
C27_Case ==
  /\ player.destroyed
  /\ player.by = "catch"

(***************************************************************************)
(* Properties of RadioService                                              *)
(***************************************************************************)

\* C23: a fetch of stations sends at most three requests to the server, the
\* first and two more; when its failure is reported error$ holds a message
\* and isLoading$ is false; when a request of it succeeds stations$ holds
\* its stations and error$ is null.
C23_AtMostThreeRequests ==
  /\ \A fetch \in fetches : fetch.sent <= 3
  /\ fetched.by \in {"retry", "stations", "error"} => fetched.sent <= 3
  /\ fetched.by = "error" => (radio.error # NoError /\ ~radio.isLoading)
  /\ fetched.by = "stations" => (radio.stations = fetched.of /\ radio.error = NoError)

\* The case of C23: every request of a fetch has failed and the failure has
\* been reported.
C23_Case ==
  /\ fetched.by = "error"
  /\ radio.error # NoError

\* C28: isLoading$ is true as long as a fetch is in flight, and once every
\* call of fetchStations has published its stations, stations$ holds those
\* of the latest call.
C28_LatestFetchWins ==
  /\ fetches # {} => radio.isLoading
  /\ (fetches = {} /\ fetched.calls >= 2
        /\ \A call \in 1..fetched.calls : fetched.ended[call] = "stations")
       => radio.stations = fetched.calls

\* The case of C28: of two calls in flight together, the response of the
\* later has arrived first.
C28_Case ==
  /\ fetched.calls = 2
  /\ fetched.ended = <<"pending", "stations">>

====
